---- MODULE Spec2Model ----
(***************************************************************************)
(* Recording and replay engine of RoboMaster-Playground.                   *)
(*                                                                         *)
(*   FrameBuffer, LeRobotRecorder      src/cli/lerobot_recorder.py         *)
(*   CommandPlayer                     src/cli/recorder.py                 *)
(*                                                                         *)
(* Times are integers (clock units), numeric command values are integers   *)
(* (the code's floats, scaled), positions are centimetres and degrees.     *)
(* Every specification below drives one component; the variables of the    *)
(* other components stay at their initial values.                          *)
(***************************************************************************)
EXTENDS Integers, Sequences, FiniteSets, TLC

VARIABLES
    \* ---- FrameBuffer (self.* of class FrameBuffer) ----
    fb_max_frames,      \* self.max_frames
    fb_robot_frames,    \* self.robot_frames : deque of <<ts, frame>>
    fb_webcam_frames,   \* self.webcam_frames: deque of <<ts, frame>>
    fb_commands,        \* self.commands     : deque of <<ts, command>>
    fb_hist_robot,      \* history: every entry appended since the last clear()
    fb_hist_webcam,
    fb_hist_cmd,
    fb_agg,             \* the last aggregate_commands call (window, result), kept
                        \* until the buffer is next written
    fb_got,             \* the last get_frame_at_time call (arguments, result), kept
                        \* until the buffer is next written
    \* ---- CommandPlayer (self.* of class CommandPlayer) ----
    pl_file,            \* what is at recording_path: no file, a file that is not
                        \* JSON, or a JSON document with its 'commands'
    pl_built,           \* "no" player constructed yet, "yes", or "failed": __init__
                        \* raised and there is no player
    pl_commands,        \* self.commands (the loaded log)
    pl_index,           \* self.current_index
    pl_start_time,      \* self.start_time, None is NoTime
    pl_stopped,         \* self._stopped
    pl_position,        \* self._current_position
    pl_clock,           \* time.time()
    pl_call,            \* the last call on the player and what it returned
    pl_returned,        \* history: cursor positions of the commands returned since
                        \* the last start(), in the order returned
    pl_executed,        \* the driver operation execute_command invoked last
    pl_driver,          \* the driver calls the last execute_command made, with arguments
    pl_stop_issued,     \* history: "no" stop() yet, "yes" since the last stop(), or
                        \* "restarted" by a start() after a stop()
    \* ---- LeRobotRecorder (self.* of class LeRobotRecorder) ----
    rec_fps_arg,        \* the fps handed to LeRobotRecorder(fps=...), None is NoFps
    rec_built,          \* "no" recorder constructed yet, "yes", or "failed": __init__
                        \* raised and there is no recorder
    rec_fps,            \* self.fps
    rec_dry_run,        \* self.dry_run
    rec_recording,      \* self._recording
    rec_thread,         \* self._thread: a sampler thread, or NoThread
    rec_stop_event,     \* self._stop_event
    rec_frame_count,    \* self._frame_count
    rec_start_time,     \* self._start_time
    rec_last_frame_time,\* self._last_frame_time
    rec_dataset,        \* self._dataset is not None
    rec_episode,        \* the frames self._dataset holds for the episode in progress
    rec_store,          \* the episodes persisted in the backing store
    rec_clock,          \* time.time()
    rec_pc,             \* where the caller thread is inside a Recorder call
    rec_pending,        \* the stamped command add_command is about to append
    rec_call,           \* the call the caller thread made last and what it returned
    th_pc,              \* where each sampler thread is in _recording_loop
    th_time,            \* current_time of each sampler thread
    th_wake,            \* when the wait of each sampler thread times out
    th_frame,           \* the frame each sampler thread has captured and not yet added
    rec_session,        \* history: the number of sessions start() has begun
    rec_aborted,        \* history: the sessions abort() ended
    rec_counted,        \* history: how many ticks aggregated each command
    rec_window_end,     \* history: the end of the last window aggregated in the session
    \* ---- CommandRecorder (self.* of class CommandRecorder) ----
    rc_commands,        \* self.commands: the log, in the order recorded
    rc_recording,       \* self._recording
    rc_start_time,      \* self.start_time, None is NoTime
    rc_position,        \* self._position
    rc_clock,           \* time.time()
    rc_pc,              \* where the caller thread is inside a record_* call
    rc_pending,         \* the entry a record_* call is building
    rc_call,            \* the last call on the recorder
    rc_doc,             \* the 'commands' of the document save() wrote last, kept until
                        \* the log next changes
    \* ---- normalize_action / denormalize_action (arguments and results) ----
    nm_ranges,          \* action_ranges: (min, max) of the channels it names
    nm_raw,             \* raw_actions: the value of each field it holds
    nm_norm,            \* what normalize_action returned, <<>> before the call
    nm_denorm,          \* what denormalize_action returned, <<>> before the call
    \* ---- FrameBuffer._lock and the threads that take it ----
    lk_holder,          \* the thread inside `with self._lock`, or "none"
    lk_pc,              \* where each thread is: the method it is in and its next step
    lk_flag,            \* self._stop_event of the recorder
    lk_recording,       \* self._recording of the recorder
    \* ---- ActionController (src/driver/robot_driver.py) ----
    ac_is_moving,       \* self._is_moving
    ac_pc,              \* each action: "none" not yet made, "sent" to the robot with no
                        \* waiter thread, "started" waiter thread started, "waiting"
                        \* waiter thread in wait_for_completed, "done"
    ac_caller,          \* where the caller thread is: "idle" or inside move()
    ac_call,            \* the call the caller made last, what it returned and how many
                        \* accepted actions were in flight when it was made
    \* ---- drive_loop (src/cli/drive.py) ----
    dl_has_recorder,    \* lerobot_recorder is not None
    dl_running,         \* the while loop has not been left
    dl_prev,            \* prev_back_button
    dl_recording,       \* lerobot_recorder.is_recording
    dl_episodes,        \* episodes_saved
    dl_iter             \* the last iteration: what it polled and the recorder calls it made

fbVars == <<fb_max_frames, fb_robot_frames, fb_webcam_frames, fb_commands,
            fb_hist_robot, fb_hist_webcam, fb_hist_cmd, fb_agg, fb_got>>
plLoad == <<pl_file, pl_built>>
plVars == <<pl_file, pl_built, pl_commands, pl_index, pl_start_time, pl_stopped, pl_position,
            pl_clock, pl_call, pl_returned, pl_executed, pl_driver, pl_stop_issued>>
recConf == <<rec_fps_arg, rec_built, rec_fps>>
recVars == <<rec_fps_arg, rec_built, rec_fps, rec_dry_run, rec_recording, rec_thread, rec_stop_event, rec_frame_count,
             rec_start_time, rec_last_frame_time, rec_dataset, rec_episode, rec_store,
             rec_clock, rec_pc, rec_pending, rec_call, th_pc, th_time, th_wake,
             th_frame, rec_session, rec_aborted, rec_counted, rec_window_end>>
rcVars == <<rc_commands, rc_recording, rc_start_time, rc_position, rc_clock, rc_pc,
            rc_pending, rc_call, rc_doc>>
nmVars == <<nm_ranges, nm_raw, nm_norm, nm_denorm>>
lkVars == <<lk_holder, lk_pc, lk_flag, lk_recording>>
acVars == <<ac_is_moving, ac_pc, ac_caller, ac_call>>
dlVars == <<dl_has_recorder, dl_running, dl_prev, dl_recording, dl_episodes, dl_iter>>
auxVars == <<lkVars, acVars, dlVars>>
vars == <<fbVars, plVars, recVars, rcVars, nmVars, auxVars>>

Max(a, b) == IF a >= b THEN a ELSE b
Min(a, b) == IF a <= b THEN a ELSE b
Abs(a) == IF a < 0 THEN -a ELSE a

\* The last n entries of sequence s (all of s when it is shorter).
LastN(s, n) == IF Len(s) <= n THEN s ELSE SubSeq(s, Len(s) - n + 1, Len(s))

(***************************************************************************)
(* FrameBuffer                                                             *)
(***************************************************************************)

\* ACTION_NAMES without the reserved slot: the keys of the aggregate.
ActionFields == {"move_x", "move_y", "rotate_z", "gripper_open", "gripper_close",
                 "arm_recenter", "arm_x", "arm_y"}

\* action_ranges.get(key, (0, 100)) for the two gripper fields.
GripperMin == 0
GripperMax == 100

\* The command deque holds CommandCapFactor times as many entries as a frame deque.
CommandCapFactor == 10

\* int(max_duration * fps), the duration given in tenths of a second.
MaxFramesOf(duration10, fps) == (duration10 * fps) \div 10

\* A bounded append that refuses the new entry when the deque is full.
DequeAppendKeepOld(q, e, maxlen) ==
    IF Len(q) >= maxlen THEN q ELSE Append(q, e)

\* collections.deque(maxlen=n).append(e): the oldest entry leaves a full deque.
DequeAppend(q, e, maxlen) ==
    IF maxlen = 0 THEN <<>>
    ELSE IF Len(q) >= maxlen THEN Append(Tail(q), e)
    ELSE Append(q, e)

NoAgg == [called |-> FALSE, start |-> 0, end |-> 0, result |-> [k \in ActionFields |-> 0]]

\* The frame get_frame_at_time returns when it returns None.
NoneFrame == [source |-> "none", n |-> 0]

NoGot == [called |-> FALSE, source |-> "none", target |-> 0, offset |-> 0,
          result |-> NoneFrame]

FbInitWith(maxf) ==
    /\ fb_max_frames = maxf
    /\ fb_robot_frames = <<>>
    /\ fb_webcam_frames = <<>>
    /\ fb_commands = <<>>
    /\ fb_hist_robot = <<>>
    /\ fb_hist_webcam = <<>>
    /\ fb_hist_cmd = <<>>
    /\ fb_agg = NoAgg
    /\ fb_got = NoGot

add_robot_frame(frame, ts) ==
    /\ fb_robot_frames' = DequeAppend(fb_robot_frames, <<ts, frame>>, fb_max_frames)
    /\ fb_hist_robot' = Append(fb_hist_robot, <<ts, frame>>)
    /\ fb_agg' = NoAgg
    /\ fb_got' = NoGot
    /\ UNCHANGED <<fb_max_frames, fb_webcam_frames, fb_commands, fb_hist_webcam,
                   fb_hist_cmd>>

add_webcam_frame(frame, ts) ==
    /\ fb_webcam_frames' = DequeAppend(fb_webcam_frames, <<ts, frame>>, fb_max_frames)
    /\ fb_hist_webcam' = Append(fb_hist_webcam, <<ts, frame>>)
    /\ fb_agg' = NoAgg
    /\ fb_got' = NoGot
    /\ UNCHANGED <<fb_max_frames, fb_robot_frames, fb_commands, fb_hist_robot,
                   fb_hist_cmd>>

\* The append of add_command, under the lock.
CommandsAppend(q, command, ts, maxf) == DequeAppend(q, <<ts, command>>, maxf * CommandCapFactor)

add_command(command, ts) ==
    /\ fb_commands' = CommandsAppend(fb_commands, command, ts, fb_max_frames)
    /\ fb_hist_cmd' = Append(fb_hist_cmd, <<ts, command>>)
    /\ fb_agg' = NoAgg
    /\ fb_got' = NoGot
    /\ UNCHANGED <<fb_max_frames, fb_robot_frames, fb_webcam_frames, fb_hist_robot,
                   fb_hist_webcam>>

clear ==
    /\ fb_robot_frames' = <<>>
    /\ fb_webcam_frames' = <<>>
    /\ fb_commands' = <<>>
    /\ fb_hist_robot' = <<>>
    /\ fb_hist_webcam' = <<>>
    /\ fb_hist_cmd' = <<>>
    /\ fb_agg' = NoAgg
    /\ fb_got' = NoGot
    /\ UNCHANGED fb_max_frames

\* A window closed at both ends.
InWindowClosed(ts, start, end) == start <= ts /\ ts <= end

\* start_time < ts <= end_time
InWindow(ts, start, end) == start < ts /\ ts <= end

\* A fold that sums arm_recenter like the numeric fields.
AggStepSumAll(agg, cmd) ==
    [k \in ActionFields |-> IF k \in DOMAIN cmd THEN agg[k] + cmd[k] ELSE agg[k]]

\* One command folded into the aggregate: arm_recenter is OR-ed, the rest summed;
\* keys that are not action fields are ignored.
AggStep(agg, cmd) ==
    [k \in ActionFields |->
        IF k \in DOMAIN cmd
        THEN IF k = "arm_recenter"
             THEN (IF cmd[k] # 0 THEN 1 ELSE agg[k])
             ELSE agg[k] + cmd[k]
        ELSE agg[k]]

RECURSIVE AggFold(_, _, _, _)
AggFold(agg, q, start, end) ==
    IF q = <<>> THEN agg
    ELSE AggFold(IF InWindow(Head(q)[1], start, end) THEN AggStep(agg, Head(q)[2]) ELSE agg,
                 Tail(q), start, end)

\* A clip of the two gripper fields from above only.
ClipGripperMaxOnly(agg) ==
    [k \in ActionFields |->
        IF k \in {"gripper_open", "gripper_close"}
        THEN Min(GripperMax, agg[k])
        ELSE agg[k]]

\* max(min_val, min(max_val, v)) on the two gripper fields.
ClipGripper(agg) ==
    [k \in ActionFields |->
        IF k \in {"gripper_open", "gripper_close"}
        THEN Max(GripperMin, Min(GripperMax, agg[k]))
        ELSE agg[k]]

aggregate_commands(q, start, end) ==
    ClipGripper(AggFold([k \in ActionFields |-> 0], q, start, end))

\* A call of aggregate_commands on the buffer; its return value is kept in fb_agg.
Aggregate(start, end) ==
    /\ fb_agg' = [called |-> TRUE, start |-> start, end |-> end,
                  result |-> aggregate_commands(fb_commands, start, end)]
    /\ UNCHANGED <<fb_max_frames, fb_robot_frames, fb_webcam_frames, fb_commands,
                   fb_hist_robot, fb_hist_webcam, fb_hist_cmd, fb_got>>

\* best_diff = float('inf')
Inf == -1

\* A test that keeps the first frame looked at.
CloserNever(diff, best_diff) == best_diff = Inf

\* diff < best_diff
Closer(diff, best_diff) == best_diff = Inf \/ diff < best_diff

\* The loop of lines 168-172 over what is left of the deque.
RECURSIVE BestFrame(_, _, _, _)
BestFrame(frames, adjusted_time, best_frame, best_diff) ==
    IF frames = <<>> THEN best_frame
    ELSE LET diff == Abs(Head(frames)[1] - adjusted_time)
         IN  IF Closer(diff, best_diff)
             THEN BestFrame(Tail(frames), adjusted_time, Head(frames)[2], diff)
             ELSE BestFrame(Tail(frames), adjusted_time, best_frame, best_diff)

\* self.robot_frames if source == 'robot' else self.webcam_frames
SourceFrames(source, robot_frames, webcam_frames) ==
    IF source = "robot" THEN robot_frames ELSE webcam_frames

get_frame_at_time(robot_frames, webcam_frames, target_time, source, offset) ==
    LET frames == SourceFrames(source, robot_frames, webcam_frames)
    IN  IF frames = <<>> THEN NoneFrame
        ELSE BestFrame(frames, target_time + offset, NoneFrame, Inf)

\* A call of get_frame_at_time on the buffer; its return value is kept in fb_got.
GetFrame(target_time, source, offset) ==
    /\ fb_got' = [called |-> TRUE, source |-> source, target |-> target_time,
                  offset |-> offset,
                  result |-> get_frame_at_time(fb_robot_frames, fb_webcam_frames,
                                               target_time, source, offset)]
    /\ UNCHANGED <<fb_max_frames, fb_robot_frames, fb_webcam_frames, fb_commands,
                   fb_hist_robot, fb_hist_webcam, fb_hist_cmd, fb_agg>>

(***************************************************************************)
(* CommandPlayer                                                           *)
(***************************************************************************)

\* self.start_time = None
NoTime == -1
\* a command without an 'expected_pos' entry
NoPos == <<>>

\* xy_tolerance = 0.01 m (one centimetre) and z_tolerance = 1.0 degree
XYTolerance == 1
ZTolerance == 1

\* The yaw difference taken as it is, without the loop that wraps it.
NoWrapYaw(dz) == dz

\* while dz > 180: dz -= 360
RECURSIVE WrapYaw(_)
WrapYaw(dz) == IF dz > 180 THEN WrapYaw(dz - 360) ELSE dz

\* The comparison of check_position_reached with exclusive bounds.
check_position_strict(expected, pos) ==
    IF expected = NoPos THEN TRUE
    ELSE LET dx == Abs(pos[1] - expected[1])
             dy == Abs(pos[2] - expected[2])
             dz == Abs(WrapYaw(Abs(pos[3] - expected[3])))
         IN  dx < XYTolerance /\ dy < XYTolerance /\ dz < ZTolerance

\* check_position_reached: pos and expected are <<x, y, yaw>>
check_position_reached(expected, pos) ==
    IF expected = NoPos THEN TRUE
    ELSE LET dx == Abs(pos[1] - expected[1])
             dy == Abs(pos[2] - expected[2])
             dz == Abs(WrapYaw(Abs(pos[3] - expected[3])))
         IN  dx <= XYTolerance /\ dy <= XYTolerance /\ dz <= ZTolerance

\* A gate that releases every command, whatever the live pose.
PositionGateOpen(cmd, pos) == TRUE

\* "expected_pos and not self.check_position_reached(expected_pos)", negated:
\* the command at the cursor may be released.
PositionGate(cmd, pos) ==
    ~ (cmd.expected_pos # NoPos /\ ~ check_position_reached(cmd.expected_pos, pos))

\* is_playing without the test of the stopped flag.
is_playing_unstopped(start_time, stopped, index, commands) ==
    start_time # NoTime /\ index < Len(commands)

\* is_playing
is_playing(start_time, stopped, index, commands) ==
    start_time # NoTime /\ ~ stopped /\ index < Len(commands)

IsPlaying == is_playing(pl_start_time, pl_stopped, pl_index, pl_commands)

\* elapsed
Elapsed == IF pl_start_time = NoTime THEN 0 ELSE pl_clock - pl_start_time

\* self.duration, taken from the document when the player is constructed
Duration == pl_file.duration

\* progress without the clamp
progress_unclamped(start_time, clock, duration) ==
    IF duration <= 0
    THEN <<100, 1>>
    ELSE <<100 * (IF start_time = NoTime THEN 0 ELSE clock - start_time), duration>>

\* progress, as the fraction <<numerator, denominator>> of a percentage:
\* min(100.0, (elapsed / duration) * 100) is 100 from elapsed = duration on.
progress(start_time, clock, duration) ==
    LET elapsed == IF start_time = NoTime THEN 0 ELSE clock - start_time
    IN  IF duration <= 0
        THEN <<100, 1>>
        ELSE IF elapsed >= duration THEN <<100, 1>> ELSE <<100 * elapsed, duration>>

Progress == progress(pl_start_time, pl_clock, Duration)

\* The loop test with a strict comparison.
PendingDueStrict(cmd, current_time) == cmd.time < current_time

\* The test of the while loop of get_pending_commands on the command at index.
PendingDue(cmd, current_time) == cmd.time <= current_time

\* cmd['time'] finds the key
HasTime(cmd) == "time" \in DOMAIN cmd

\* The cursor after the while loop of get_pending_commands (0-based, as in the
\* code): the loop ends at the end of the log, at a command not yet due, or at a
\* command without 'time', where the test raises KeyError.
RECURSIVE PendingEnd(_, _, _)
PendingEnd(commands, index, current_time) ==
    IF /\ index < Len(commands)
       /\ HasTime(commands[index + 1])
       /\ PendingDue(commands[index + 1], current_time)
    THEN PendingEnd(commands, index + 1, current_time)
    ELSE index

\* The while loop of get_pending_commands raises KeyError: it ends at a command
\* without 'time'.
PendingRaises(commands, index, current_time) ==
    LET end == PendingEnd(commands, index, current_time)
    IN  end < Len(commands) /\ ~ HasTime(commands[end + 1])

\* The dispatch with gripper_open and gripper_close exchanged.
DriverOpSwapped(type) ==
    CASE type = "chassis_speed" -> "drive_speed"
      [] type = "chassis_move"  -> "drive_move"
      [] type = "arm_move"      -> "arm_move"
      [] type = "arm_recenter"  -> "arm_recenter"
      [] type = "gripper_open"  -> "gripper_close"
      [] type = "gripper_close" -> "gripper_open"
      [] type = "gripper_stop"  -> "gripper_stop"
      [] type = "stop"          -> "stop"
      [] OTHER                  -> "none"

\* The driver operation execute_command dispatches a command type to.
DriverOp(type) ==
    CASE type = "chassis_speed" -> "drive_speed"
      [] type = "chassis_move"  -> "drive_move"
      [] type = "arm_move"      -> "arm_move"
      [] type = "arm_recenter"  -> "arm_recenter"
      [] type = "gripper_open"  -> "gripper_open"
      [] type = "gripper_close" -> "gripper_close"
      [] type = "gripper_stop"  -> "gripper_stop"
      [] type = "stop"          -> "stop"
      [] OTHER                  -> "none"

\* The record of a call: what it returned and, for the two retrieval calls, what
\* is_playing, the cursor and elapsed were when it was made.
PlCall(op, ret, playing, before, elapsed) ==
    [op |-> op, ret |-> ret, playing |-> playing, index_before |-> before,
     elapsed |-> elapsed]

\* The file at recording_path: kind is "missing" (no such file), "corrupt" (a
\* file json.load cannot parse) or "document" (a JSON object), commands being the
\* document's 'commands' list.
MissingFile == [kind |-> "missing", commands |-> <<>>, duration |-> 0]
CorruptFile == [kind |-> "corrupt", commands |-> <<>>, duration |-> 0]
DocumentFile(commands) == [kind |-> "document", commands |-> commands, duration |-> 0]

\* A document that also has a 'duration'; recording.get('duration', 0) makes a
\* document without one the same as one with duration 0.
RecordingFile(commands, duration) ==
    [kind |-> "document", commands |-> commands, duration |-> duration]

\* load_recording raises: open() on a missing file, json.load on a corrupt one.
LoadRaises(file) == file.kind # "document"

\* CommandPlayer.__init__ on a loaded log
PlInitWith(log) ==
    /\ pl_file = DocumentFile(log)
    /\ pl_built = "yes"
    /\ pl_commands = log
    /\ pl_index = 0
    /\ pl_start_time = NoTime
    /\ pl_stopped = FALSE
    /\ pl_position = <<0, 0, 0>>
    /\ pl_clock = 0
    /\ pl_call = PlCall("init", <<>>, FALSE, 0, 0)
    /\ pl_returned = <<>>
    /\ pl_executed = "none"
    /\ pl_driver = <<>>
    /\ pl_stop_issued = "no"

\* Before CommandPlayer(recording_path) is called: no player, file at the path.
PlUnbuilt(file) ==
    /\ pl_file = file
    /\ pl_built = "no"
    /\ pl_commands = <<>>
    /\ pl_index = 0
    /\ pl_start_time = NoTime
    /\ pl_stopped = FALSE
    /\ pl_position = <<0, 0, 0>>
    /\ pl_clock = 0
    /\ pl_call = PlCall("none", <<>>, FALSE, 0, 0)
    /\ pl_returned = <<>>
    /\ pl_executed = "none"
    /\ pl_driver = <<>>
    /\ pl_stop_issued = "no"

\* CommandPlayer(recording_path): load_recording raises and there is no player,
\* or __init__ takes the document's 'commands' as they are (lines 244-256).
PlConstruct ==
    /\ pl_built = "no"
    /\ IF LoadRaises(pl_file)
       THEN /\ pl_built' = "failed"
            /\ pl_call' = PlCall("init_raised", <<>>, FALSE, 0, 0)
            /\ UNCHANGED <<pl_commands, pl_index, pl_start_time, pl_stopped, pl_position>>
       ELSE /\ pl_built' = "yes"
            /\ pl_call' = PlCall("init", <<>>, FALSE, 0, 0)
            /\ pl_commands' = pl_file.commands
            /\ pl_index' = 0
            /\ pl_start_time' = NoTime
            /\ pl_stopped' = FALSE
            /\ pl_position' = <<0, 0, 0>>
    /\ UNCHANGED <<pl_file, pl_clock, pl_returned, pl_executed, pl_driver, pl_stop_issued>>

\* CommandPlayer.start
PlStart ==
    /\ pl_start_time' = pl_clock
    /\ pl_index' = 0
    /\ pl_stopped' = FALSE
    /\ pl_call' = PlCall("start", <<>>, FALSE, 0, 0)
    /\ pl_returned' = <<>>
    /\ pl_stop_issued' = IF pl_stop_issued = "no" THEN "no" ELSE "restarted"
    /\ UNCHANGED <<plLoad, pl_commands, pl_position, pl_clock, pl_executed, pl_driver>>

\* CommandPlayer.stop
PlStop ==
    /\ pl_stopped' = TRUE
    /\ pl_call' = PlCall("stop", <<>>, FALSE, 0, 0)
    /\ pl_stop_issued' = "yes"
    /\ UNCHANGED <<plLoad, pl_commands, pl_index, pl_start_time, pl_position, pl_clock,
                   pl_returned, pl_executed, pl_driver>>

\* CommandPlayer.update_position
PlUpdatePosition(pos) ==
    /\ pl_position' = pos
    /\ pl_call' = PlCall("update_position", <<>>, FALSE, 0, 0)
    /\ UNCHANGED <<plLoad, pl_commands, pl_index, pl_start_time, pl_stopped, pl_clock,
                   pl_returned, pl_executed, pl_driver, pl_stop_issued>>

\* The entries pl_returned gains for the commands at cursor positions from+1 .. to.
Returned(from, to) == [k \in 1 .. (to - from) |-> from + k]

\* CommandPlayer.get_pending_commands
PlGetPending ==
    LET end == IF IsPlaying THEN PendingEnd(pl_commands, pl_index, Elapsed) ELSE pl_index
        raises == IsPlaying /\ PendingRaises(pl_commands, pl_index, Elapsed)
    IN  /\ pl_index' = end
        /\ pl_call' = IF raises
                      THEN PlCall("pending_raised", <<>>, IsPlaying, pl_index, Elapsed)
                      ELSE PlCall("pending", SubSeq(pl_commands, pl_index + 1, end),
                                  IsPlaying, pl_index, Elapsed)
        /\ pl_returned' = IF raises THEN pl_returned
                          ELSE pl_returned \o Returned(pl_index, end)
        /\ UNCHANGED <<plLoad, pl_commands, pl_start_time, pl_stopped, pl_position, pl_clock,
                       pl_executed, pl_driver, pl_stop_issued>>

\* A cursor that stays where it is when a command is released.
CursorStays(index) == index

\* get_next_command_with_position line 406: self.current_index += 1
CursorAfterRelease(index) == index + 1

\* CommandPlayer.get_next_command_with_position
PlGetNext ==
    LET release == /\ IsPlaying
                   /\ pl_index < Len(pl_commands)
                   /\ PositionGate(pl_commands[pl_index + 1], pl_position)
    IN  /\ pl_index' = IF release THEN CursorAfterRelease(pl_index) ELSE pl_index
        /\ pl_call' = PlCall("next",
                             IF release THEN <<pl_commands[pl_index + 1]>> ELSE <<>>,
                             IsPlaying, pl_index, Elapsed)
        /\ pl_returned' = IF release THEN Append(pl_returned, pl_index + 1)
                          ELSE pl_returned
        /\ UNCHANGED <<plLoad, pl_commands, pl_start_time, pl_stopped, pl_position, pl_clock,
                       pl_executed, pl_driver, pl_stop_issued>>

\* cmd.get(key, default) of a command dictionary
Get(cmd, key, default) == IF key \in DOMAIN cmd THEN cmd[key] ELSE default

\* The keys execute_command reads with cmd[...]: a command of the type lacking
\* one makes it raise KeyError before the driver is called.
RequiredKeys(type) ==
    CASE type = "chassis_speed" -> {"vx", "vy", "vz"}
      [] type = "chassis_move"  -> {"x", "y", "z"}
      [] type = "arm_move"      -> {"x", "y"}
      [] OTHER                  -> {}

\* The arguments execute_command passes to the driver operation. xy_speed is in
\* tenths of a metre per second.
DefaultXYSpeed10 == 5
DefaultZSpeed == 60
DefaultPower == 50

DriverArgs(cmd) ==
    LET type == Get(cmd, "type", "none")
    IN  CASE type = "chassis_speed" -> <<cmd.vx, cmd.vy, cmd.vz>>
          [] type = "chassis_move"  ->
                 <<cmd.x, cmd.y, cmd.z, Get(cmd, "xy_speed", DefaultXYSpeed10),
                   Get(cmd, "z_speed", DefaultZSpeed)>>
          [] type = "arm_move"      -> <<cmd.x, cmd.y>>
          [] type \in {"gripper_open", "gripper_close"} ->
                 <<Get(cmd, "power", DefaultPower)>>
          [] OTHER                  -> <<>>

\* execute_command(cmd, driver): whether it raises, and the driver calls it makes.
execute_command(cmd) ==
    LET type == Get(cmd, "type", "none")
    IN  IF ~ (RequiredKeys(type) \subseteq DOMAIN cmd)
        THEN [raised |-> TRUE, calls |-> <<>>]
        ELSE IF DriverOp(type) = "none"
        THEN [raised |-> FALSE, calls |-> <<>>]
        ELSE [raised |-> FALSE,
              calls |-> <<[op |-> DriverOp(type), args |-> DriverArgs(cmd)]>>]

\* CommandPlayer.execute_command(cmd, driver), cmd a command the caller holds
PlExecute(cmd) ==
    /\ pl_driver' = execute_command(cmd).calls
    /\ pl_executed' = IF pl_driver' = <<>> THEN "none" ELSE pl_driver'[1].op
    /\ pl_call' = PlCall(IF execute_command(cmd).raised THEN "execute_raised" ELSE "execute",
                         <<cmd>>, FALSE, 0, 0)
    /\ UNCHANGED <<plLoad, pl_commands, pl_index, pl_start_time, pl_stopped, pl_position,
                   pl_clock, pl_returned, pl_stop_issued>>

\* time passes
PlTick ==
    /\ pl_clock' = pl_clock + 1
    /\ pl_call' = PlCall("tick", <<>>, FALSE, 0, 0)
    /\ UNCHANGED <<plLoad, pl_commands, pl_index, pl_start_time, pl_stopped, pl_position,
                   pl_returned, pl_executed, pl_driver, pl_stop_issued>>

(***************************************************************************)
(* LeRobotRecorder: the caller thread and the sampler threads              *)
(***************************************************************************)

\* self._thread = None
NoThread == 0
\* no frame in hand
NoFrame == <<>>
\* self.frame_interval = 1.0 / self.fps, in clock units
FrameInterval == 1

\* where a sampler thread that has started and not ended can be
ThreadRunning == {"loop", "tick", "add", "mark", "wait"}

thVars == <<th_pc, th_time, th_wake, th_frame>>
recHist == <<rec_session, rec_aborted, rec_counted, rec_window_end>>

\* The record of a call of the caller thread: ret is "none" while the call runs
\* and for calls that return nothing, "True" or "False" for what stop() returns.
RecCall(op, ret) == [op |-> op, ret |-> ret]

\* LEROBOT.get('default_fps', 30) and LEROBOT.get('buffer_duration', 2.0), the
\* duration in tenths of a second
DefaultFps == 30
DefaultDuration10 == 20

\* fps or LEROBOT.get('default_fps', 30): None and 0 are both falsy
FpsOrDefault(fps) == IF fps = 0 THEN DefaultFps ELSE fps

\* deque(maxlen=n) raises ValueError on a negative n
DequeRaises(maxlen) == maxlen < 0

\* The fields LeRobotRecorder.__init__ sets (lines 236-255), threads being the
\* sampler threads the recorder may come to start
RecFresh(dry_run, threads) ==
    /\ rec_dry_run = dry_run
    /\ rec_recording = FALSE
    /\ rec_thread = NoThread
    /\ rec_stop_event = FALSE
    /\ rec_frame_count = 0
    /\ rec_start_time = 0
    /\ rec_last_frame_time = 0
    /\ rec_dataset = FALSE
    /\ rec_episode = <<>>
    /\ rec_store = <<>>
    /\ rec_clock = 0
    /\ rec_pc = "idle"
    /\ rec_pending = <<>>
    /\ rec_call = RecCall("init", "none")
    /\ th_pc = [t \in threads |-> "none"]
    /\ th_time = [t \in threads |-> 0]
    /\ th_wake = [t \in threads |-> 0]
    /\ th_frame = [t \in threads |-> NoFrame]
    /\ rec_session = 0
    /\ rec_aborted = {}
    /\ rec_counted = <<>>
    /\ rec_window_end = NoTime

\* LeRobotRecorder.__init__ done, at one frame per unit of the clock
RecInitWith(dry_run, threads) ==
    /\ rec_fps_arg = 1
    /\ rec_built = "yes"
    /\ rec_fps = 1
    /\ RecFresh(dry_run, threads)

\* Before LeRobotRecorder(fps=fps_arg, dry_run=dry_run) is called: no recorder.
RecUnbuilt(fps_arg, dry_run, threads) ==
    /\ rec_fps_arg = fps_arg
    /\ rec_built = "no"
    /\ rec_fps = 0
    /\ RecFresh(dry_run, threads)

\* LeRobotRecorder(fps=fps_arg): self.fps is the argument or, when that is falsy,
\* the default (line 235); FrameBuffer(fps=self.fps) makes its deques with
\* maxlen int(max_duration * fps), which raises on a negative length (lines
\* 102-113), and then there is no recorder; nothing else looks at fps.
RecConstruct ==
    /\ rec_built = "no"
    /\ LET fps == FpsOrDefault(rec_fps_arg)
           maxf == MaxFramesOf(DefaultDuration10, FpsOrDefault(fps))
       IN  IF DequeRaises(maxf) \/ DequeRaises(maxf * CommandCapFactor)
           THEN /\ rec_built' = "failed"
                /\ rec_call' = RecCall("init_raised", "none")
                /\ UNCHANGED <<rec_fps, fbVars>>
           ELSE /\ rec_built' = "yes"
                /\ rec_call' = RecCall("init", "none")
                /\ rec_fps' = fps
                /\ fb_max_frames' = maxf
                /\ UNCHANGED <<fb_robot_frames, fb_webcam_frames, fb_commands,
                               fb_hist_robot, fb_hist_webcam, fb_hist_cmd, fb_agg, fb_got>>
    /\ UNCHANGED <<rec_fps_arg, rec_dry_run, rec_recording, rec_thread, rec_stop_event,
                   rec_frame_count, rec_start_time, rec_last_frame_time, rec_dataset,
                   rec_episode, rec_store, rec_clock, rec_pc, rec_pending, thVars,
                   recHist>>

\* start(), lines 269-276: nothing when already recording, else the fields of a
\* new session.
RecStartBegin ==
    /\ rec_pc = "idle"
    /\ rec_call' = RecCall("start", "none")
    /\ IF rec_recording
       THEN UNCHANGED <<rec_recording, rec_frame_count, rec_start_time,
                        rec_last_frame_time, rec_stop_event, rec_pc, rec_session,
                        rec_window_end>>
       ELSE /\ rec_recording' = TRUE
            /\ rec_frame_count' = 0
            /\ rec_start_time' = rec_clock
            /\ rec_last_frame_time' = rec_clock
            /\ rec_stop_event' = FALSE
            /\ rec_pc' = "start_clear"
            /\ rec_session' = rec_session + 1
            /\ rec_window_end' = NoTime
    /\ UNCHANGED <<recConf, rec_dry_run, rec_thread, rec_dataset, rec_episode, rec_store,
                   rec_clock, rec_pending, thVars, rec_aborted, rec_counted, fbVars>>

\* _init_dataset: self._dataset becomes the dataset opened or created (opened), or
\* None when that fails; a dry run leaves it alone.
InitDataset(dry_run, dataset, opened) == IF dry_run THEN dataset ELSE opened

\* start(), lines 277-284: the buffer is cleared, the dataset opened or created
\* (or not, when that fails), the sampler thread started.
RecStartFinish ==
    /\ rec_pc = "start_clear"
    /\ clear
    /\ \E opened \in BOOLEAN :
          rec_dataset' = InitDataset(rec_dry_run, rec_dataset, opened)
    /\ rec_episode' = IF rec_dry_run THEN rec_episode ELSE <<>>
    /\ rec_thread' = rec_session
    /\ th_pc' = [th_pc EXCEPT ![rec_session] = "loop"]
    /\ rec_pc' = "idle"
    /\ UNCHANGED <<recConf, rec_dry_run, rec_recording, rec_stop_event, rec_frame_count,
                   rec_start_time, rec_last_frame_time, rec_store, rec_clock,
                   rec_pending, rec_call, th_time, th_wake, th_frame, recHist>>

\* stop(), lines 292-296
RecStopBegin ==
    /\ rec_pc = "idle"
    /\ IF rec_recording
       THEN /\ rec_recording' = FALSE
            /\ rec_stop_event' = TRUE
            /\ rec_pc' = "stop_join"
            /\ rec_call' = RecCall("stop", "none")
       ELSE /\ rec_call' = RecCall("stop", "False")
            /\ UNCHANGED <<rec_recording, rec_stop_event, rec_pc>>
    /\ UNCHANGED <<recConf, rec_dry_run, rec_thread, rec_frame_count, rec_start_time,
                   rec_last_frame_time, rec_dataset, rec_episode, rec_store, rec_clock,
                   rec_pending, thVars, recHist, fbVars>>

\* A join without a timeout: it returns only when the thread has ended.
JoinWaits(thread) ==
    IF thread = NoThread THEN TRUE ELSE th_pc[thread] = "done"

\* self._thread.join(timeout=2.0) returns: the thread has ended, or the timeout
\* has run out on a thread that has not.
JoinReturns(thread) ==
    IF thread = NoThread THEN TRUE ELSE th_pc[thread] \in {"done"} \cup ThreadRunning

\* What stop() returns in a dry run, after the join (lines 302-304).
StopDryRunResult == "False"

\* stop(), lines 298-304: the bounded join, then the dry-run return
RecStopJoin ==
    /\ rec_pc = "stop_join"
    /\ JoinReturns(rec_thread)
    /\ rec_thread' = NoThread
    /\ IF rec_dry_run
       THEN /\ rec_pc' = "idle"
            /\ rec_call' = [rec_call EXCEPT !.ret = StopDryRunResult]
       ELSE /\ rec_pc' = "stop_save"
            /\ UNCHANGED rec_call
    /\ UNCHANGED <<recConf, rec_dry_run, rec_recording, rec_stop_event, rec_frame_count,
                   rec_start_time, rec_last_frame_time, rec_dataset, rec_episode,
                   rec_store, rec_clock, rec_pending, thVars, recHist, fbVars>>

\* A _save_episode that reports an episode saved when there is no dataset.
NoDatasetSaved == "True"

\* What _save_episode returns when self._dataset is None (lines 498-499).
NoDatasetResult == "False"

\* What _save_episode returns after a persist that succeeded (ok) or raised.
SaveResultAlways(ok) == "True"
SaveResult(ok) == IF ok THEN "True" ELSE "False"

\* stop(), line 306, and _save_episode: nothing to do without a dataset; else the
\* episode is persisted (save_episode and consolidate return) or the persist raises.
RecStopSave ==
    /\ rec_pc = "stop_save"
    /\ rec_pc' = "idle"
    /\ IF ~ rec_dataset
       THEN /\ rec_call' = [rec_call EXCEPT !.ret = NoDatasetResult]
            /\ UNCHANGED <<rec_store, rec_episode>>
       ELSE \E ok \in BOOLEAN :
            /\ rec_call' = [rec_call EXCEPT !.ret = SaveResult(ok)]
            /\ rec_store' = IF ok THEN Append(rec_store, rec_episode) ELSE rec_store
            /\ rec_episode' = IF ok THEN <<>> ELSE rec_episode
    /\ UNCHANGED <<recConf, rec_dry_run, rec_recording, rec_thread, rec_stop_event,
                   rec_frame_count, rec_start_time, rec_last_frame_time, rec_dataset,
                   rec_clock, rec_pending, thVars, recHist, fbVars>>

\* abort(), lines 310-311
RecAbortBegin ==
    /\ rec_pc = "idle"
    /\ rec_recording' = FALSE
    /\ rec_stop_event' = TRUE
    /\ rec_pc' = "abort_join"
    /\ rec_call' = RecCall("abort", "none")
    /\ rec_aborted' = IF rec_recording THEN rec_aborted \cup {rec_session} ELSE rec_aborted
    /\ UNCHANGED <<recConf, rec_dry_run, rec_thread, rec_frame_count, rec_start_time,
                   rec_last_frame_time, rec_dataset, rec_episode, rec_store, rec_clock,
                   rec_pending, thVars, rec_session, rec_counted, rec_window_end,
                   fbVars>>

\* self._dataset after abort(), line 317
AbortDataset(dataset) == FALSE

\* abort(), lines 313-318: the bounded join, then the dataset is dropped
RecAbortFinish ==
    /\ rec_pc = "abort_join"
    /\ JoinReturns(rec_thread)
    /\ rec_thread' = NoThread
    /\ rec_dataset' = AbortDataset(rec_dataset)
    /\ rec_episode' = IF rec_dataset' THEN rec_episode ELSE <<>>
    /\ rec_pc' = "idle"
    /\ UNCHANGED <<recConf, rec_dry_run, rec_recording, rec_stop_event, rec_frame_count,
                   rec_start_time, rec_last_frame_time, rec_store, rec_clock,
                   rec_pending, rec_call, thVars, recHist, fbVars>>

\* A producer that forwards to the buffer whatever the recorder's state.
ProducerForwardsAlways(recording) == TRUE

\* if self._recording: (lines 322, 327, 336)
ProducerForwards(recording) == recording

\* add_command(command), line 336 and FrameBuffer.add_command lines 140-141:
\* nothing when not recording, else the command is stamped with the time.
RecAddCommandStamp ==
    /\ rec_pc = "idle"
    /\ rec_call' = RecCall("add_command", "none")
    /\ IF ProducerForwards(rec_recording)
       THEN /\ rec_pending' = <<rec_clock, [move_x |-> 1, seq |-> Len(rec_counted) + 1]>>
            /\ rec_counted' = Append(rec_counted, 0)
            /\ rec_pc' = "cmd_append"
       ELSE UNCHANGED <<rec_pending, rec_counted, rec_pc>>
    /\ UNCHANGED <<recConf, rec_dry_run, rec_recording, rec_thread, rec_stop_event,
                   rec_frame_count, rec_start_time, rec_last_frame_time, rec_dataset,
                   rec_episode, rec_store, rec_clock, thVars, rec_session, rec_aborted,
                   rec_window_end, fbVars>>

\* FrameBuffer.add_command lines 142-143: the append, under the lock
RecAddCommandAppend ==
    /\ rec_pc = "cmd_append"
    /\ add_command(rec_pending[2], rec_pending[1])
    /\ rec_pending' = <<>>
    /\ rec_pc' = "idle"
    /\ UNCHANGED <<recConf, rec_dry_run, rec_recording, rec_thread, rec_stop_event,
                   rec_frame_count, rec_start_time, rec_last_frame_time, rec_dataset,
                   rec_episode, rec_store, rec_clock, rec_call, thVars, recHist>>

\* add_robot_frame(frame), line 322 and FrameBuffer.add_robot_frame lines 121-122:
\* nothing when not recording, else the frame is stamped with the time.
RecAddRobotFrameStamp ==
    /\ rec_pc = "idle"
    /\ rec_call' = RecCall("add_robot_frame", "none")
    /\ IF ProducerForwards(rec_recording)
       THEN /\ rec_pending' = <<rec_clock, [source |-> "robot", n |-> Len(fb_hist_robot) + 1]>>
            /\ rec_pc' = "robot_append"
       ELSE UNCHANGED <<rec_pending, rec_pc>>
    /\ UNCHANGED <<recConf, rec_dry_run, rec_recording, rec_thread, rec_stop_event,
                   rec_frame_count, rec_start_time, rec_last_frame_time, rec_dataset,
                   rec_episode, rec_store, rec_clock, thVars, recHist, fbVars>>

\* FrameBuffer.add_robot_frame lines 123-124: the append, under the lock
RecAddRobotFrameAppend ==
    /\ rec_pc = "robot_append"
    /\ add_robot_frame(rec_pending[2], rec_pending[1])
    /\ rec_pending' = <<>>
    /\ rec_pc' = "idle"
    /\ UNCHANGED <<recConf, rec_dry_run, rec_recording, rec_thread, rec_stop_event,
                   rec_frame_count, rec_start_time, rec_last_frame_time, rec_dataset,
                   rec_episode, rec_store, rec_clock, rec_call, thVars, recHist>>

\* add_webcam_frame(frame), line 327 and FrameBuffer.add_webcam_frame lines 128-129
RecAddWebcamFrameStamp ==
    /\ rec_pc = "idle"
    /\ rec_call' = RecCall("add_webcam_frame", "none")
    /\ IF ProducerForwards(rec_recording)
       THEN /\ rec_pending' = <<rec_clock, [source |-> "webcam", n |-> Len(fb_hist_webcam) + 1]>>
            /\ rec_pc' = "webcam_append"
       ELSE UNCHANGED <<rec_pending, rec_pc>>
    /\ UNCHANGED <<recConf, rec_dry_run, rec_recording, rec_thread, rec_stop_event,
                   rec_frame_count, rec_start_time, rec_last_frame_time, rec_dataset,
                   rec_episode, rec_store, rec_clock, thVars, recHist, fbVars>>

\* FrameBuffer.add_webcam_frame lines 130-131: the append, under the lock
RecAddWebcamFrameAppend ==
    /\ rec_pc = "webcam_append"
    /\ add_webcam_frame(rec_pending[2], rec_pending[1])
    /\ rec_pending' = <<>>
    /\ rec_pc' = "idle"
    /\ UNCHANGED <<recConf, rec_dry_run, rec_recording, rec_thread, rec_stop_event,
                   rec_frame_count, rec_start_time, rec_last_frame_time, rec_dataset,
                   rec_episode, rec_store, rec_clock, rec_call, thVars, recHist>>

\* self._robot_offset and self._webcam_offset: the defaults of lines 254-255
RobotOffset == 0
WebcamOffset == 0

\* np.zeros((h, w, 3)): the all-zero image of the shape expected of a source
ZeroImage(source) == [source |-> source, n |-> 0]

\* An image handed on as it came from the lookup, None included.
ImageAsFound(frame, source) == frame

\* _add_frame_to_dataset lines 473-489: the frame found, or a black frame when
\* the lookup returned None
ImageOrZeros(frame, source) == IF frame = NoneFrame THEN ZeroImage(source) ELSE frame

\* _recording_loop lines 412-413, the time left to the next tick, as a wake-up time
WakeTime(last_frame_time) == last_frame_time + FrameInterval

\* _recording_loop lines 403-407 and, when no tick is due, 412-414: the test of
\* the cancellation flag, the time read, a tick due or the sleep to the next one
ThLoop(t) ==
    /\ th_pc[t] = "loop"
    /\ IF rec_stop_event
       THEN /\ th_pc' = [th_pc EXCEPT ![t] = "done"]
            /\ UNCHANGED <<th_time, th_wake>>
       ELSE IF rec_clock - rec_last_frame_time >= FrameInterval
            THEN /\ th_pc' = [th_pc EXCEPT ![t] = "tick"]
                 /\ th_time' = [th_time EXCEPT ![t] = rec_clock]
                 /\ UNCHANGED th_wake
            ELSE /\ th_pc' = [th_pc EXCEPT ![t] = "wait"]
                 /\ th_wake' = [th_wake EXCEPT ![t] = WakeTime(rec_last_frame_time)]
                 /\ UNCHANGED th_time
    /\ UNCHANGED <<recConf, rec_dry_run, rec_recording, rec_thread, rec_stop_event,
                   rec_frame_count, rec_start_time, rec_last_frame_time, rec_dataset,
                   rec_episode, rec_store, rec_clock, rec_pc, rec_pending, rec_call,
                   th_frame, recHist, fbVars>>

\* _process_frame line 426: where the window of a tick starts
WindowStart(frame_count, last_frame_time, start_time) ==
    IF frame_count > 1 THEN last_frame_time ELSE start_time

\* The commands of q that aggregate_commands(start, end) folds in, by their seq.
WindowSeqs(q, start, end) ==
    {q[i][2].seq : i \in {j \in 1 .. Len(q) : InWindow(q[j][1], start, end)}}

\* _process_frame lines 418-432 and _add_frame_to_dataset lines 458-489: the frame
\* is counted, the nearest image of each source looked up and the commands of the
\* window aggregated; the frame data, a black image standing in for each image
\* not found, go on to the dataset unless this is a dry run or there is no dataset.
ThTick(t) ==
    LET count == rec_frame_count + 1
        start == WindowStart(count, rec_last_frame_time, rec_start_time)
        seqs == WindowSeqs(fb_commands, start, th_time[t])
        robot_frame == get_frame_at_time(fb_robot_frames, fb_webcam_frames,
                                         th_time[t], "robot", RobotOffset)
        webcam_frame == get_frame_at_time(fb_robot_frames, fb_webcam_frames,
                                          th_time[t], "webcam", WebcamOffset)
        frame == [session |-> rec_session,
                  action |-> aggregate_commands(fb_commands, start, th_time[t]),
                  robot |-> ImageOrZeros(robot_frame, "robot"),
                  top |-> ImageOrZeros(webcam_frame, "webcam")]
    IN  /\ th_pc[t] = "tick"
        /\ rec_frame_count' = count
        /\ rec_counted' = [i \in 1 .. Len(rec_counted) |->
                              rec_counted[i] + (IF i \in seqs THEN 1 ELSE 0)]
        /\ rec_window_end' = th_time[t]
        /\ IF rec_dry_run \/ ~ rec_dataset
           THEN /\ th_pc' = [th_pc EXCEPT ![t] = "mark"]
                /\ UNCHANGED th_frame
           ELSE /\ th_pc' = [th_pc EXCEPT ![t] = "add"]
                /\ th_frame' = [th_frame EXCEPT ![t] = frame]
        /\ UNCHANGED <<recConf, rec_dry_run, rec_recording, rec_thread, rec_stop_event,
                       rec_start_time, rec_last_frame_time, rec_dataset, rec_episode,
                       rec_store, rec_clock, rec_pc, rec_pending, rec_call, th_time,
                       th_wake, rec_session, rec_aborted, fbVars>>

\* _add_frame_to_dataset line 491: self._dataset.add_frame(frame_data) appends the
\* frame to the episode, or raises (also when self._dataset has become None), which
\* line 493 catches.
\* add_frame raising with no except clause around it: the exception leaves
\* _recording_loop and the thread ends.
AfterAddUncaught(written) == IF written THEN "mark" ELSE "done"

\* Where the sampler goes on after add_frame: line 493 catches whatever it
\* raised, so _add_frame_to_dataset returns to the loop either way.
AfterAdd(written) == "mark"

ThAdd(t) ==
    /\ th_pc[t] = "add"
    /\ \E written \in BOOLEAN :
          /\ rec_episode' = IF rec_dataset /\ written
                            THEN Append(rec_episode, th_frame[t]) ELSE rec_episode
          /\ th_pc' = [th_pc EXCEPT ![t] = AfterAdd(rec_dataset /\ written)]
    /\ th_frame' = [th_frame EXCEPT ![t] = NoFrame]
    /\ UNCHANGED <<recConf, rec_dry_run, rec_recording, rec_thread, rec_stop_event,
                   rec_frame_count, rec_start_time, rec_last_frame_time, rec_dataset,
                   rec_store, rec_clock, rec_pc, rec_pending, rec_call, th_time,
                   th_wake, recHist, fbVars>>

\* _recording_loop lines 409-414: the tick's time becomes the last frame time, and
\* the rest of the interval, if any, is slept
ThMark(t) ==
    /\ th_pc[t] = "mark"
    /\ rec_last_frame_time' = th_time[t]
    /\ IF WakeTime(th_time[t]) > rec_clock
       THEN /\ th_pc' = [th_pc EXCEPT ![t] = "wait"]
            /\ th_wake' = [th_wake EXCEPT ![t] = WakeTime(th_time[t])]
       ELSE /\ th_pc' = [th_pc EXCEPT ![t] = "loop"]
            /\ UNCHANGED th_wake
    /\ th_time' = [th_time EXCEPT ![t] = 0]
    /\ UNCHANGED <<recConf, rec_dry_run, rec_recording, rec_thread, rec_stop_event,
                   rec_frame_count, rec_start_time, rec_dataset, rec_episode,
                   rec_store, rec_clock, rec_pc, rec_pending, rec_call, th_frame,
                   recHist, fbVars>>

\* self._stop_event.wait(sleep_time) returns: the flag is set or the time is up
ThWake(t) ==
    /\ th_pc[t] = "wait"
    /\ rec_stop_event \/ rec_clock >= th_wake[t]
    /\ th_pc' = [th_pc EXCEPT ![t] = "loop"]
    /\ th_wake' = [th_wake EXCEPT ![t] = 0]
    /\ UNCHANGED <<recConf, rec_dry_run, rec_recording, rec_thread, rec_stop_event,
                   rec_frame_count, rec_start_time, rec_last_frame_time, rec_dataset,
                   rec_episode, rec_store, rec_clock, rec_pc, rec_pending, rec_call,
                   th_time, th_frame, recHist, fbVars>>

\* time passes
RecTick ==
    /\ rec_clock' = rec_clock + 1
    /\ UNCHANGED <<recConf, rec_dry_run, rec_recording, rec_thread, rec_stop_event,
                   rec_frame_count, rec_start_time, rec_last_frame_time, rec_dataset,
                   rec_episode, rec_store, rec_pc, rec_pending, rec_call, thVars,
                   recHist, fbVars>>

(***************************************************************************)
(* CommandRecorder                                                         *)
(***************************************************************************)

\* last_speed = None, for a speed key
NoSpeed == 0
\* last_gripper = None
NoGripper == "none"

GripperTypes == {"gripper_open", "gripper_close", "gripper_stop"}

NoDoc == [written |-> FALSE, commands |-> <<>>, command_count |-> 0]

\* The commands that carry an expected_pos.
DriveTypes == {"chassis_speed", "chassis_move"}

\* No entry in the making. at_call is history: self._position when the record_*
\* call that builds the entry was made.
NoEntry == [type |-> "none", key |-> 0, n |-> 0, time |-> 0, expected_pos |-> NoPos]
NoPending == [entry |-> NoEntry, at_call |-> NoPos]

\* The record of the last call: its name, the type recorded, the pose delivered.
RcCall(op, type, pos) == [op |-> op, type |-> type, pos |-> pos]

\* CommandRecorder.__init__
RcInit ==
    /\ rc_commands = <<>>
    /\ rc_recording = FALSE
    /\ rc_start_time = NoTime
    /\ rc_position = <<0, 0, 0>>
    /\ rc_clock = 0
    /\ rc_pc = "idle"
    /\ rc_pending = NoPending
    /\ rc_call = RcCall("init", "none", NoPos)
    /\ rc_doc = NoDoc

\* update_position(x, y, z), called from the pose subscription
RcUpdatePosition(pos) ==
    /\ rc_position' = pos
    /\ rc_call' = RcCall("update_position", "none", pos)
    /\ UNCHANGED <<rc_commands, rc_recording, rc_start_time, rc_clock, rc_pc,
                   rc_pending, rc_doc>>

\* start()
RcStart ==
    /\ rc_pc = "idle"
    /\ rc_commands' = <<>>
    /\ rc_start_time' = rc_clock
    /\ rc_recording' = TRUE
    /\ rc_call' = RcCall("start", "none", NoPos)
    /\ rc_doc' = NoDoc
    /\ UNCHANGED <<rc_position, rc_clock, rc_pc, rc_pending>>

\* stop()
RcStop ==
    /\ rc_pc = "idle"
    /\ rc_recording' = FALSE
    /\ rc_call' = RcCall("stop", "none", NoPos)
    /\ UNCHANGED <<rc_commands, rc_start_time, rc_position, rc_clock, rc_pc,
                   rc_pending, rc_doc>>

\* _timestamp
Timestamp(start_time, clock) == IF start_time = NoTime THEN 0 ELSE clock - start_time

\* A record_* that appends whatever the recorder's state.
RecorderAppendsAlways(recording) == TRUE

\* if not self._recording: return, negated
RecorderAppends(recording) == recording

\* record_chassis_speed, record_chassis_move, record_arm_move, record_gripper_*,
\* record_stop: nothing when not recording. Else the entry is built: its time,
\* and, for a drive command, its expected_pos, for which self._position is read
\* three times, once for each of x, y and z; this step reads x. A command that
\* carries no expected_pos goes to the end of the log at once. key stands for the
\* values the command carries ((vx, vy, vz) of a chassis_speed), n is its place
\* in the log.
RcRecord(type, key) ==
    LET entry == [type |-> type, key |-> key, n |-> Len(rc_commands) + 1,
                  time |-> Timestamp(rc_start_time, rc_clock), expected_pos |-> NoPos]
    IN  /\ rc_pc = "idle"
        /\ rc_call' = RcCall("record", type, NoPos)
        /\ IF ~ RecorderAppends(rc_recording)
           THEN UNCHANGED <<rc_commands, rc_pc, rc_pending, rc_doc>>
           ELSE IF type \in DriveTypes
           THEN /\ rc_pending' = [entry |-> [entry EXCEPT !.expected_pos = <<rc_position[1]>>],
                                   at_call |-> rc_position]
                /\ rc_pc' = "read_y"
                /\ UNCHANGED <<rc_commands, rc_doc>>
           ELSE /\ rc_commands' = Append(rc_commands, entry)
                /\ rc_doc' = NoDoc
                /\ UNCHANGED <<rc_pc, rc_pending>>
        /\ UNCHANGED <<rc_recording, rc_start_time, rc_position, rc_clock>>

\* 'y': self._position[1]
RcReadY ==
    /\ rc_pc = "read_y"
    /\ rc_pending' = [rc_pending EXCEPT !.entry.expected_pos = Append(@, rc_position[2])]
    /\ rc_pc' = "read_z"
    /\ UNCHANGED <<rc_commands, rc_recording, rc_start_time, rc_position, rc_clock,
                   rc_call, rc_doc>>

\* 'z': self._position[2], and self.commands.append of the entry
RcReadZ ==
    /\ rc_pc = "read_z"
    /\ rc_commands' = Append(rc_commands,
                             [rc_pending.entry EXCEPT
                                  !.expected_pos = Append(@, rc_position[3])])
    /\ rc_pending' = NoPending
    /\ rc_pc' = "idle"
    /\ rc_doc' = NoDoc
    /\ UNCHANGED <<rc_recording, rc_start_time, rc_position, rc_clock, rc_call>>

\* time passes
RcTick ==
    /\ rc_clock' = rc_clock + 1
    /\ UNCHANGED <<rc_commands, rc_recording, rc_start_time, rc_position, rc_pc,
                   rc_pending, rc_call, rc_doc>>

\* The loop of _optimize_commands over what is left of the log (lines 201-215).
RECURSIVE OptimizeFrom(_, _, _, _)
OptimizeFrom(rest, optimized, last_speed, last_gripper) ==
    IF rest = <<>> THEN optimized
    ELSE LET cmd == Head(rest)
         IN  IF cmd.type = "chassis_speed"
             THEN IF cmd.key = last_speed
                  THEN OptimizeFrom(Tail(rest), optimized, last_speed, last_gripper)
                  ELSE OptimizeFrom(Tail(rest), Append(optimized, cmd), cmd.key, last_gripper)
             ELSE IF cmd.type \in GripperTypes
             THEN IF cmd.type = last_gripper
                  THEN OptimizeFrom(Tail(rest), optimized, last_speed, last_gripper)
                  ELSE OptimizeFrom(Tail(rest), Append(optimized, cmd), last_speed, cmd.type)
             ELSE OptimizeFrom(Tail(rest), Append(optimized, cmd), last_speed, last_gripper)

\* A pass that starts with an empty list instead of [self.commands[0]].
optimize_commands_headless(commands) ==
    IF commands = <<>> THEN <<>>
    ELSE OptimizeFrom(Tail(commands), <<>>, NoSpeed, NoGripper)

\* A pass whose loop runs over self.commands instead of self.commands[1:].
optimize_commands_whole(commands) ==
    IF commands = <<>> THEN <<>>
    ELSE OptimizeFrom(commands, <<Head(commands)>>, NoSpeed, NoGripper)

\* _optimize_commands: the first command is kept as it is and the loop starts at
\* the second, remembering no speed and no gripper command.
optimize_commands(commands) ==
    IF commands = <<>> THEN <<>>
    ELSE OptimizeFrom(Tail(commands), <<Head(commands)>>, NoSpeed, NoGripper)

\* save(), lines 177-185: the document written holds the optimized log and its
\* length as command_count
RcSave ==
    /\ rc_pc = "idle"
    /\ LET optimized == optimize_commands(rc_commands)
       IN  rc_doc' = [written |-> TRUE, commands |-> optimized,
                      command_count |-> Len(optimized)]
    /\ rc_call' = RcCall("save", "none", NoPos)
    /\ UNCHANGED <<rc_commands, rc_recording, rc_start_time, rc_position, rc_clock,
                   rc_pc, rc_pending>>

(***************************************************************************)
(* normalize_action and denormalize_action (src/cli/lerobot_recorder.py)   *)
(* Values are exact fractions <<numerator, denominator>>, denominator > 0. *)
(***************************************************************************)

ACTION_NAMES == <<"move_x", "move_y", "rotate_z", "gripper_open", "gripper_close",
                  "arm_recenter", "arm_x", "arm_y", "unused">>

\* 0.0
Zero == <<0, 1>>

\* action_ranges.get(name, (0, 1))
DefaultRange == <<0, 1>>
RangeOf(ranges, name) == IF name \in DOMAIN ranges THEN ranges[name] ELSE DefaultRange

\* raw_actions.get(name, 0.0)
RawOf(raw, name) == IF name \in DOMAIN raw THEN raw[name] ELSE 0

\* max(min_val, min(max_val, raw_value))
Clip(min_val, max_val, raw_value) == Max(min_val, Min(max_val, raw_value))

\* A channel normalized without the clip.
NormalizeUnclipped(raw_value, range) ==
    LET min_val == range[1]
        max_val == range[2]
    IN  IF max_val - min_val > 0
        THEN <<2 * (raw_value - min_val) - (max_val - min_val), max_val - min_val>>
        ELSE Zero

\* normalize_action lines 46-55: (clipped - min) / (max - min) * 2 - 1, or 0.0 when
\* max - min is not positive
NormalizeChannel(raw_value, range) ==
    LET min_val == range[1]
        max_val == range[2]
        clipped == Clip(min_val, max_val, raw_value)
    IN  IF max_val - min_val > 0
        THEN <<2 * (clipped - min_val) - (max_val - min_val), max_val - min_val>>
        ELSE Zero

\* normalize_action: one entry per name of ACTION_NAMES, in that order
normalize_action(raw_actions, action_ranges) ==
    [i \in 1 .. Len(ACTION_NAMES) |->
        IF ACTION_NAMES[i] = "unused" THEN Zero
        ELSE NormalizeChannel(RawOf(raw_actions, ACTION_NAMES[i]),
                              RangeOf(action_ranges, ACTION_NAMES[i]))]

\* A channel denormalized without the shift by min.
DenormalizeUnshifted(norm_value, range) ==
    LET min_val == range[1]
        max_val == range[2]
    IN  <<(norm_value[1] + norm_value[2]) * (max_val - min_val), 2 * norm_value[2]>>

\* denormalize_action lines 83-86: (norm + 1) / 2 * (max - min) + min
DenormalizeChannel(norm_value, range) ==
    LET min_val == range[1]
        max_val == range[2]
    IN  <<(norm_value[1] + norm_value[2]) * (max_val - min_val)
              + 2 * norm_value[2] * min_val,
          2 * norm_value[2]>>

\* denormalize_action: a raw value for every name but 'unused', an entry the
\* vector is too short for counting as 0.0
denormalize_action(normalized_actions, action_ranges) ==
    [name \in ActionFields |->
        LET i == CHOOSE k \in 1 .. Len(ACTION_NAMES) : ACTION_NAMES[k] = name
        IN  DenormalizeChannel(IF i <= Len(normalized_actions)
                               THEN normalized_actions[i] ELSE Zero,
                               RangeOf(action_ranges, name))]

NoNorm == [called |-> FALSE, value |-> <<>>]
NoDenorm == [called |-> FALSE, value |-> [name \in ActionFields |-> Zero]]

\* No call of either function yet, the arguments being ranges and raw.
NmInitWith(ranges, raw) ==
    /\ nm_ranges = ranges
    /\ nm_raw = raw
    /\ nm_norm = NoNorm
    /\ nm_denorm = NoDenorm

\* A call of normalize_action(raw_actions, action_ranges)
Normalize ==
    /\ nm_norm' = [called |-> TRUE, value |-> normalize_action(nm_raw, nm_ranges)]
    /\ nm_denorm' = NoDenorm
    /\ UNCHANGED <<nm_ranges, nm_raw>>

\* A call of denormalize_action on the vector normalize_action returned
Denormalize ==
    /\ nm_norm.called
    /\ nm_denorm' = [called |-> TRUE,
                     value |-> denormalize_action(nm_norm.value, nm_ranges)]
    /\ UNCHANGED <<nm_ranges, nm_raw, nm_norm>>

(***************************************************************************)
(* Specifications                                                          *)
(***************************************************************************)

\* A component that a specification does not drive.
(***************************************************************************)
(* The lock of FrameBuffer: which steps of each method run inside           *)
(* `with self._lock` (src/cli/lerobot_recorder.py)                          *)
(***************************************************************************)

Samplers == {"sampler1", "sampler2"}
LkThreads == {"producer", "control"} \cup Samplers

\* The steps of a method in program order. "acquire" and "release" are the entry
\* to and the exit from `with self._lock`; every other step is the work done there.
\* add_robot_frame / add_webcam_frame, lines 119-131
AddFrameSteps == <<"stamp", "acquire", "copy_image", "append", "release">>
\* add_command, lines 133-143
AddCommandSteps == <<"stamp", "acquire", "copy_command", "append", "release">>
\* get_frame_at_time with the with-block left open.
GetFrameStepsUnreleased == <<"acquire", "scan">>
\* get_frame_at_time, lines 155-174: both returns are inside the with-block, which
\* releases the lock on the way out
GetFrameSteps == <<"acquire", "scan", "release">>
\* aggregate_commands, lines 190-213
AggregateSteps == <<"init", "acquire", "sum", "release", "clip">>
\* clear, lines 215-220
ClearSteps == <<"acquire", "clear", "release">>
\* _process_frame and _add_frame_to_dataset, lines 416-432 and 456-494
TickSteps == <<"count">> \o GetFrameSteps \o GetFrameSteps \o AggregateSteps \o <<"persist">>
\* LeRobotRecorder.start, lines 272-284
StartSteps == <<"clear_flag">> \o ClearSteps \o <<"init_dataset", "spawn">>
\* LeRobotRecorder.stop, lines 291-306, and abort, lines 310-317
StopSteps == <<"set_flag", "join", "save">>
AbortSteps == <<"set_flag", "join", "drop">>

ProducerMethods == {"add_robot_frame", "add_webcam_frame", "add_command"}
ControlMethods == {"start", "stop", "abort"}

LkProgram(method) ==
    CASE method \in {"add_robot_frame", "add_webcam_frame"} -> AddFrameSteps
      [] method = "add_command" -> AddCommandSteps
      [] method = "tick" -> TickSteps
      [] method = "start" -> StartSteps
      [] method = "stop" -> StopSteps
      [] method = "abort" -> AbortSteps
      [] OTHER -> <<>>

LkAt(method, i) == [method |-> method, i |-> i]
LkIdle == LkAt("idle", 0)

\* The step a thread is about to take, "none" outside a method.
LkNextStep(p) ==
    IF lk_pc[p].i \in 1 .. Len(LkProgram(lk_pc[p].method))
    THEN LkProgram(lk_pc[p].method)[lk_pc[p].i] ELSE "none"

LkInit ==
    /\ lk_holder = "none"
    /\ lk_pc = [p \in LkThreads |-> IF p \in Samplers THEN LkAt("none", 0) ELSE LkIdle]
    /\ lk_flag = FALSE
    /\ lk_recording = FALSE

\* A producer call is made: add_robot_frame, add_webcam_frame or add_command of
\* the recorder (lines 320-337), which goes on to the buffer only while recording.
LkProduce(method) ==
    /\ lk_pc["producer"] = LkIdle
    /\ lk_recording
    /\ lk_pc' = [lk_pc EXCEPT !["producer"] = LkAt(method, 1)]
    /\ UNCHANGED <<lk_holder, lk_flag, lk_recording>>

\* start(), stop() or abort() is called: start returns at once while recording
\* and stop when not recording (lines 269-270, 292-293), else _recording is set first.
LkControl(method) ==
    /\ lk_pc["control"] = LkIdle
    /\ IF method = "start"
       THEN ~ lk_recording /\ \E s \in Samplers : lk_pc[s].method = "none"
       ELSE method = "stop" => lk_recording
    /\ lk_recording' = (method = "start")
    /\ lk_pc' = [lk_pc EXCEPT !["control"] = LkAt(method, 1)]
    /\ UNCHANGED <<lk_holder, lk_flag>>

\* The thread start() creates: the first one not yet used.
LkSpawned ==
    IF lk_pc["sampler1"].method = "none" THEN "sampler1" ELSE "sampler2"

\* A thread takes the next step of the method it is in. Entering the with-block
\* waits for the lock to be free; join(timeout=2.0) returns whether or not the
\* sampler has ended.
LkStep(p) ==
    LET step == LkNextStep(p)
        last == lk_pc[p].i = Len(LkProgram(lk_pc[p].method))
        after == IF ~ last THEN LkAt(lk_pc[p].method, lk_pc[p].i + 1)
                 ELSE IF p \in Samplers THEN LkAt("wait", 0) ELSE LkIdle
    IN  /\ step # "none"
        /\ step = "acquire" => lk_holder = "none"
        /\ step = "spawn" => lk_pc[LkSpawned].method = "none"
        /\ lk_holder' = IF step = "acquire" THEN p
                        ELSE IF step = "release" THEN "none" ELSE lk_holder
        /\ lk_flag' = IF step = "set_flag" THEN TRUE
                      ELSE IF step = "clear_flag" THEN FALSE ELSE lk_flag
        /\ lk_pc' = IF step = "spawn"
                    THEN [lk_pc EXCEPT ![p] = after, ![LkSpawned] = LkAt("loop", 0)]
                    ELSE [lk_pc EXCEPT ![p] = after]
        /\ UNCHANGED lk_recording

\* _recording_loop line 403 and 405-407: the flag test, then a tick when one is due
LkLoop(p) ==
    /\ lk_pc[p] = LkAt("loop", 0)
    /\ \E due \in BOOLEAN :
          lk_pc' = [lk_pc EXCEPT ![p] = IF lk_flag THEN LkAt("done", 0)
                                        ELSE IF due THEN LkAt("tick", 1)
                                        ELSE LkAt("wait", 0)]
    /\ UNCHANGED <<lk_holder, lk_flag, lk_recording>>

\* _recording_loop line 414: self._stop_event.wait(sleep_time) returns
LkWake(p) ==
    /\ lk_pc[p] = LkAt("wait", 0)
    /\ lk_pc' = [lk_pc EXCEPT ![p] = LkAt("loop", 0)]
    /\ UNCHANGED <<lk_holder, lk_flag, lk_recording>>

(***************************************************************************)
(* ActionController and SDKChassisController.move                          *)
(* (src/driver/robot_driver.py, src/driver/sdk_driver.py)                  *)
(***************************************************************************)

MaxActions == 3

Actions == 1 .. MaxActions

AcCall(op, ret, in_flight) == [op |-> op, ret |-> ret, in_flight |-> in_flight]

\* The actions the controller has accepted and that have neither completed nor
\* timed out: a waiter thread was started for them and has not finished.
InFlight == {w \in Actions : ac_pc[w] \in {"started", "waiting"}}

\* is_ready, lines 38-41
is_ready(is_moving) == ~ is_moving

\* The action object the next call is about: the first one not yet made.
NewAction == CHOOSE w \in Actions : ac_pc[w] = "none" /\ \A v \in Actions : v < w => ac_pc[v] # "none"

AcInit ==
    /\ ac_is_moving = FALSE
    /\ ac_pc = [w \in Actions |-> "none"]
    /\ ac_caller = "idle"
    /\ ac_call = AcCall("init", "none", 0)

\* execute_action(action), lines 78-83, on an action the SDK has sent: a waiter
\* thread is started and True returned when is_ready() holds, else False. op is
\* the method the caller called: execute_action itself, or move, which ends in it.
AcExecute(op) ==
    /\ \E w \in Actions : ac_pc[w] = "none"
    /\ IF is_ready(ac_is_moving)
       THEN /\ ac_pc' = [ac_pc EXCEPT ![NewAction] = "started"]
            /\ ac_call' = AcCall(op, "True", Cardinality(InFlight))
       ELSE /\ ac_pc' = [ac_pc EXCEPT ![NewAction] = "sent"]
            /\ ac_call' = AcCall(op, "False", Cardinality(InFlight))
    /\ ac_caller' = "idle"
    /\ UNCHANGED ac_is_moving

\* SDKChassisController.move, lines 24-25: False at once when not ready
AcMoveBegin ==
    /\ ac_caller = "idle"
    /\ \E w \in Actions : ac_pc[w] = "none"
    /\ IF is_ready(ac_is_moving)
       THEN /\ ac_caller' = "move_send"
            /\ UNCHANGED ac_call
       ELSE /\ ac_call' = AcCall("move", "False", Cardinality(InFlight))
            /\ UNCHANGED ac_caller
    /\ UNCHANGED <<ac_is_moving, ac_pc>>

\* move, lines 27-32: self._chassis.move(...) sends the action and
\* execute_action takes it, or the send raises and the status is reset.
AcMoveSend ==
    /\ ac_caller = "move_send"
    /\ \E sent \in BOOLEAN :
          IF sent
          THEN AcExecute("move")
          ELSE /\ ac_is_moving' = FALSE
               /\ ac_call' = AcCall("move", "False", Cardinality(InFlight))
               /\ ac_caller' = "idle"
               /\ UNCHANGED ac_pc

\* _wait_for_action line 58: the waiter thread's first statement marks the
\* controller as moving
AcWaiterMark(w) ==
    /\ ac_pc[w] = "started"
    /\ ac_pc' = [ac_pc EXCEPT ![w] = "waiting"]
    /\ ac_is_moving' = TRUE
    /\ UNCHANGED <<ac_caller, ac_call>>

\* _wait_for_action lines 60-67: wait_for_completed returns (completed or
\* timeout) or raises; each way the controller is marked as not moving
AcWaiterDone(w) ==
    /\ ac_pc[w] = "waiting"
    /\ ac_pc' = [ac_pc EXCEPT ![w] = "done"]
    /\ ac_is_moving' = FALSE
    /\ UNCHANGED <<ac_caller, ac_call>>

\* An action that was sent and for which no waiter was started ends on the robot.
AcComplete(w) ==
    /\ ac_pc[w] = "sent"
    /\ ac_pc' = [ac_pc EXCEPT ![w] = "done"]
    /\ UNCHANGED <<ac_is_moving, ac_caller, ac_call>>

(***************************************************************************)
(* The Back button in drive_loop (src/cli/drive.py)                        *)
(***************************************************************************)

MaxEpisodes == 3

\* How an iteration ends: "go_on", the Start button or the q / ESC key (abort and
\* break), or a pygame QUIT event (abort; its break leaves only the for loop).
DlEndings == {"go_on", "start_button", "key", "quit_event"}

\* The longest run of iterations with the button down that is told apart.
MaxHeld == 3

\* held is the number of iterations in a row, this one included, that polled the
\* button down.
DlIter(back, prev, held, calls, ending) ==
    [back |-> back, prev |-> prev, held |-> held, calls |-> calls, ending |-> ending]

Held(back, held) == IF ~ back THEN 0 ELSE IF held < MaxHeld THEN held + 1 ELSE held

\* A handler that acts whenever the button is down.
BackDown(back, prev) == back

\* line 295: state.back and not prev_back_button
BackPressed(back, prev) == back /\ ~ prev

DlInit ==
    /\ dl_has_recorder \in BOOLEAN
    /\ dl_running = TRUE
    /\ dl_prev = FALSE
    /\ dl_recording = FALSE
    /\ dl_episodes = 0
    /\ dl_iter = DlIter(FALSE, FALSE, 0, <<>>, "go_on")

\* One iteration of the while loop, lines 81-327, as far as the recorder's
\* lifecycle goes: the joystick is polled once; a Back press stops and saves when
\* recording (stop() returning saved) and starts otherwise; prev_back_button
\* takes the polled value; then the three ways to quit abort a recording.
DlIterate(back, saved, ending) ==
    LET toggles == dl_has_recorder /\ BackPressed(back, dl_prev)
        stops == toggles /\ dl_recording
        recording == IF toggles THEN ~ dl_recording ELSE dl_recording
        aborts == ending # "go_on" /\ dl_has_recorder /\ recording
    IN  /\ dl_running
        /\ dl_episodes' = IF stops /\ saved THEN dl_episodes + 1 ELSE dl_episodes
        /\ dl_prev' = back
        /\ dl_recording' = IF aborts THEN FALSE ELSE recording
        /\ dl_running' = (ending \notin {"start_button", "key"})
        /\ dl_iter' = DlIter(back, dl_prev, Held(back, dl_iter.held),
                             (IF toggles THEN <<IF stops THEN "stop" ELSE "start">> ELSE <<>>)
                             \o (IF aborts THEN <<"abort">> ELSE <<>>),
                             ending)
        /\ UNCHANGED dl_has_recorder

\* lines 329-331: KeyboardInterrupt ends the loop and aborts a recording
DlInterrupt ==
    /\ dl_running
    /\ dl_running' = FALSE
    /\ dl_recording' = FALSE
    /\ dl_iter' = DlIter(dl_iter.back, dl_iter.prev, dl_iter.held,
                         IF dl_has_recorder /\ dl_recording THEN <<"abort">> ELSE <<>>,
                         "interrupt")
    /\ UNCHANGED <<dl_has_recorder, dl_prev, dl_episodes>>

LkUnused == LkInit
AcUnused == AcInit
DlUnused ==
    /\ dl_has_recorder = FALSE
    /\ dl_running = FALSE
    /\ dl_prev = FALSE
    /\ dl_recording = FALSE
    /\ dl_episodes = 0
    /\ dl_iter = DlIter(FALSE, FALSE, 0, <<>>, "go_on")
AuxUnused == LkUnused /\ AcUnused /\ DlUnused

FbUnused == FbInitWith(0)
PlUnused == PlInitWith(<<>>)
RecUnused == RecInitWith(FALSE, {})
RcUnused == RcInit
NmUnused == NmInitWith([name \in {"move_x"} |-> DefaultRange], [name \in {"move_x"} |-> 0])

---------------------------------------------------------------------------
\* SpecPlay: one CommandPlayer on a loaded log, called in any order.

MaxLogLen == 2
MaxLogTime == 1
MaxClock == 2

\* expected_pos values of the log and live poses, <<x cm, y cm, yaw degrees>>
ExpPosSet == {<<100, 0, 0>>, <<0, 0, 179>>}
LivePosSet == {<<0, 0, 0>>, <<50, 0, 0>>, <<99, 1, 0>>, <<0, 0, -179>>}

PlCommandSet ==
    {[time |-> t, type |-> "chassis_speed", vx |-> 0, vy |-> 0, vz |-> 0,
      expected_pos |-> p] :
        t \in 0 .. MaxLogTime, p \in ExpPosSet}
    \cup {[time |-> t, type |-> "arm_move", x |-> 0, y |-> 0,
          expected_pos |-> NoPos] : t \in 0 .. MaxLogTime}

\* Logs as CommandRecorder writes them: time offsets never decrease.
PlLogs ==
    {log \in UNION {[1 .. n -> PlCommandSet] : n \in 0 .. MaxLogLen} :
        \A i \in 1 .. Len(log) - 1 : log[i].time <= log[i + 1].time}

PlayInit ==
    /\ \E log \in PlLogs : PlInitWith(log)
    /\ FbUnused
    /\ RecUnused
    /\ RcUnused
    /\ NmUnused
    /\ AuxUnused

PlayNext ==
    \/ (PlStart /\ UNCHANGED <<fbVars, recVars, rcVars, nmVars, auxVars>>)
    \/ (PlStop /\ UNCHANGED <<fbVars, recVars, rcVars, nmVars, auxVars>>)
    \/ (\E pos \in LivePosSet : PlUpdatePosition(pos) /\ UNCHANGED <<fbVars, recVars, rcVars, nmVars, auxVars>>)
    \/ (PlGetPending /\ UNCHANGED <<fbVars, recVars, rcVars, nmVars, auxVars>>)
    \/ (PlGetNext /\ UNCHANGED <<fbVars, recVars, rcVars, nmVars, auxVars>>)
    \/ (\E k \in 1 .. Len(pl_returned) :
            PlExecute(pl_commands[pl_returned[k]]) /\ UNCHANGED <<fbVars, recVars, rcVars, nmVars, auxVars>>)
    \/ (pl_clock < MaxClock /\ PlTick /\ UNCHANGED <<fbVars, recVars, rcVars, nmVars, auxVars>>)

SpecPlay == PlayInit /\ [][PlayNext]_vars

---------------------------------------------------------------------------
\* SpecCap: one FrameBuffer filled past its capacities. Frames and commands are
\* numbered in the order they arrive; the buffer's capacities come from its
\* configuration (duration in tenths of a second, fps).

MaxFrameAdds == 3
MaxCmdAdds == 11
CapConfigs == {<<5, 1>>, <<10, 1>>, <<15, 1>>, <<10, 2>>}

CapInit ==
    /\ \E c \in CapConfigs : FbInitWith(MaxFramesOf(c[1], c[2]))
    /\ PlUnused
    /\ RecUnused
    /\ RcUnused
    /\ NmUnused
    /\ AuxUnused

CapNext ==
    \/ (/\ Len(fb_hist_robot) < MaxFrameAdds
        /\ \E ts \in 0 .. 1 : add_robot_frame(Len(fb_hist_robot) + 1, ts)
        /\ UNCHANGED <<plVars, recVars, rcVars, nmVars, auxVars>>)
    \/ (/\ Len(fb_hist_webcam) < MaxFrameAdds
        /\ \E ts \in 0 .. 1 : add_webcam_frame(Len(fb_hist_webcam) + 1, ts)
        /\ UNCHANGED <<plVars, recVars, rcVars, nmVars, auxVars>>)
    \/ (/\ Len(fb_hist_cmd) < MaxCmdAdds
        /\ add_command([move_x |-> Len(fb_hist_cmd) + 1], Len(fb_hist_cmd))
        /\ UNCHANGED <<plVars, recVars, rcVars, nmVars, auxVars>>)
    \/ (clear /\ UNCHANGED <<plVars, recVars, rcVars, nmVars, auxVars>>)

SpecCap == CapInit /\ [][CapNext]_vars

---------------------------------------------------------------------------
\* SpecAgg: one FrameBuffer as LeRobotRecorder builds it (two seconds of buffer),
\* commands added with explicit timestamps and aggregated over any window.

MaxCmds == 3
AggConfig == <<20, 1>>

\* timestamps of the commands and ends of the windows
AggTimes == {0, 1, 2}

\* Commands as drive_loop builds them (drive.py:112-187), values scaled to integers.
CmdSet == {
    [move_x |-> 1],
    [move_x |-> 2, move_y |-> 0, rotate_z |-> -9],
    [arm_x |-> 0, arm_y |-> 0, arm_recenter |-> 1],
    [arm_x |-> 10, arm_y |-> -10, arm_recenter |-> 0],
    [gripper_open |-> 50, gripper_close |-> 0] }

AggInit ==
    /\ FbInitWith(MaxFramesOf(AggConfig[1], AggConfig[2]))
    /\ PlUnused
    /\ RecUnused
    /\ RcUnused
    /\ NmUnused
    /\ AuxUnused

AggNext ==
    \/ (/\ Len(fb_hist_cmd) < MaxCmds
        /\ \E cmd \in CmdSet, ts \in AggTimes : add_command(cmd, ts)
        /\ UNCHANGED <<plVars, recVars, rcVars, nmVars, auxVars>>)
    \/ (\E start \in AggTimes, end \in AggTimes : Aggregate(start, end) /\ UNCHANGED <<plVars, recVars, rcVars, nmVars, auxVars>>)
    \/ (clear /\ UNCHANGED <<plVars, recVars, rcVars, nmVars, auxVars>>)

SpecAgg == AggInit /\ [][AggNext]_vars

---------------------------------------------------------------------------
\* SpecGrip: the same FrameBuffer fed with gripper commands only, of any sign and
\* magnitude add_command accepts, and aggregated over any window.

MaxGripCmds == 3

\* drive_loop's two gripper commands (drive.py:170-187) and one with a negative
\* and an over-range value.
GripCmdSet == {
    [gripper_open |-> 50, gripper_close |-> 0],
    [gripper_open |-> 0, gripper_close |-> 50],
    [gripper_open |-> -30, gripper_close |-> 120] }

GripInit ==
    /\ FbInitWith(MaxFramesOf(AggConfig[1], AggConfig[2]))
    /\ PlUnused
    /\ RecUnused
    /\ RcUnused
    /\ NmUnused
    /\ AuxUnused

GripNext ==
    \/ (/\ Len(fb_hist_cmd) < MaxGripCmds
        /\ \E cmd \in GripCmdSet, ts \in AggTimes : add_command(cmd, ts)
        /\ UNCHANGED <<plVars, recVars, rcVars, nmVars, auxVars>>)
    \/ (\E start \in AggTimes, end \in AggTimes : Aggregate(start, end) /\ UNCHANGED <<plVars, recVars, rcVars, nmVars, auxVars>>)
    \/ (clear /\ UNCHANGED <<plVars, recVars, rcVars, nmVars, auxVars>>)

SpecGrip == GripInit /\ [][GripNext]_vars

---------------------------------------------------------------------------
\* SpecLook: one FrameBuffer holding three frames per source, frames of both
\* sources added with explicit timestamps and looked up at any time and offset.

MaxLookAdds == 3
LookConfig == <<30, 1>>
LookTimes == {0, 1, 2}
LookOffsets == {-1, 0, 1}
Sources == {"robot", "webcam"}

LookInit ==
    /\ FbInitWith(MaxFramesOf(LookConfig[1], LookConfig[2]))
    /\ PlUnused
    /\ RecUnused
    /\ RcUnused
    /\ NmUnused
    /\ AuxUnused

LookNext ==
    \/ (/\ Len(fb_hist_robot) < MaxLookAdds
        /\ \E ts \in LookTimes :
              add_robot_frame([source |-> "robot", n |-> Len(fb_hist_robot) + 1], ts)
        /\ UNCHANGED <<plVars, recVars, rcVars, nmVars, auxVars>>)
    \/ (/\ Len(fb_hist_webcam) < MaxLookAdds
        /\ \E ts \in LookTimes :
              add_webcam_frame([source |-> "webcam", n |-> Len(fb_hist_webcam) + 1], ts)
        /\ UNCHANGED <<plVars, recVars, rcVars, nmVars, auxVars>>)
    \/ (\E target \in LookTimes, source \in Sources, offset \in LookOffsets :
            GetFrame(target, source, offset) /\ UNCHANGED <<plVars, recVars, rcVars, nmVars, auxVars>>)
    \/ (clear /\ UNCHANGED <<plVars, recVars, rcVars, nmVars, auxVars>>)

SpecLook == LookInit /\ [][LookNext]_vars

---------------------------------------------------------------------------
\* SpecRec: one LeRobotRecorder (dry run or not), its caller thread calling
\* start, stop, abort and add_command in any order, and the sampler threads its
\* sessions start, all interleaved. The buffer is the recorder's FrameBuffer.

MaxSessions == 2
MaxRecClock == 2
MaxRecCmds == 1

Threads == 1 .. MaxSessions

RecInit ==
    /\ \E dry_run \in BOOLEAN : RecInitWith(dry_run, Threads)
    /\ FbInitWith(MaxFramesOf(AggConfig[1], AggConfig[2]))
    /\ PlUnused
    /\ RcUnused
    /\ NmUnused
    /\ AuxUnused

RecNext ==
    \/ ((rec_recording \/ rec_session < MaxSessions) /\ RecStartBegin /\ UNCHANGED <<plVars, rcVars, nmVars, auxVars>>)
    \/ (RecStartFinish /\ UNCHANGED <<plVars, rcVars, nmVars, auxVars>>)
    \/ (RecStopBegin /\ UNCHANGED <<plVars, rcVars, nmVars, auxVars>>)
    \/ (RecStopJoin /\ UNCHANGED <<plVars, rcVars, nmVars, auxVars>>)
    \/ (RecStopSave /\ UNCHANGED <<plVars, rcVars, nmVars, auxVars>>)
    \/ (RecAbortBegin /\ UNCHANGED <<plVars, rcVars, nmVars, auxVars>>)
    \/ (RecAbortFinish /\ UNCHANGED <<plVars, rcVars, nmVars, auxVars>>)
    \/ (Len(rec_counted) < MaxRecCmds /\ RecAddCommandStamp /\ UNCHANGED <<plVars, rcVars, nmVars, auxVars>>)
    \/ (RecAddCommandAppend /\ UNCHANGED <<plVars, rcVars, nmVars, auxVars>>)
    \/ (\E t \in Threads : ThLoop(t) /\ UNCHANGED <<plVars, rcVars, nmVars, auxVars>>)
    \/ (\E t \in Threads : ThTick(t) /\ UNCHANGED <<plVars, rcVars, nmVars, auxVars>>)
    \/ (\E t \in Threads : ThAdd(t) /\ UNCHANGED <<plVars, rcVars, nmVars, auxVars>>)
    \/ (\E t \in Threads : ThMark(t) /\ UNCHANGED <<plVars, rcVars, nmVars, auxVars>>)
    \/ (\E t \in Threads : ThWake(t) /\ UNCHANGED <<plVars, rcVars, nmVars, auxVars>>)
    \/ (rec_clock < MaxRecClock /\ RecTick /\ UNCHANGED <<plVars, rcVars, nmVars, auxVars>>)

SpecRec == RecInit /\ [][RecNext]_vars

---------------------------------------------------------------------------
\* SpecProd: one LeRobotRecorder through one session, its caller thread calling
\* start, stop, abort and the three producers add_command, add_robot_frame and
\* add_webcam_frame in any order, interleaved with the session's sampler thread.

MaxProdClock == 1
MaxProdAdds == 1
ProdThreads == {1}

ProdInit ==
    /\ \E dry_run \in BOOLEAN : RecInitWith(dry_run, ProdThreads)
    /\ FbInitWith(MaxFramesOf(AggConfig[1], AggConfig[2]))
    /\ PlUnused
    /\ RcUnused
    /\ NmUnused
    /\ AuxUnused

ProdNext ==
    \/ ((rec_recording \/ rec_session < Cardinality(ProdThreads)) /\ RecStartBegin
            /\ UNCHANGED <<plVars, rcVars, nmVars, auxVars>>)
    \/ (RecStartFinish /\ UNCHANGED <<plVars, rcVars, nmVars, auxVars>>)
    \/ (RecStopBegin /\ UNCHANGED <<plVars, rcVars, nmVars, auxVars>>)
    \/ (RecStopJoin /\ UNCHANGED <<plVars, rcVars, nmVars, auxVars>>)
    \/ (RecStopSave /\ UNCHANGED <<plVars, rcVars, nmVars, auxVars>>)
    \/ (RecAbortBegin /\ UNCHANGED <<plVars, rcVars, nmVars, auxVars>>)
    \/ (RecAbortFinish /\ UNCHANGED <<plVars, rcVars, nmVars, auxVars>>)
    \/ ((~ rec_recording \/ Len(rec_counted) < MaxProdAdds) /\ RecAddCommandStamp
            /\ UNCHANGED <<plVars, rcVars, nmVars, auxVars>>)
    \/ (RecAddCommandAppend /\ UNCHANGED <<plVars, rcVars, nmVars, auxVars>>)
    \/ ((~ rec_recording \/ Len(fb_hist_robot) < MaxProdAdds) /\ RecAddRobotFrameStamp
            /\ UNCHANGED <<plVars, rcVars, nmVars, auxVars>>)
    \/ (RecAddRobotFrameAppend /\ UNCHANGED <<plVars, rcVars, nmVars, auxVars>>)
    \/ ((~ rec_recording \/ Len(fb_hist_webcam) < MaxProdAdds) /\ RecAddWebcamFrameStamp
            /\ UNCHANGED <<plVars, rcVars, nmVars, auxVars>>)
    \/ (RecAddWebcamFrameAppend /\ UNCHANGED <<plVars, rcVars, nmVars, auxVars>>)
    \/ (\E t \in ProdThreads : ThLoop(t) /\ UNCHANGED <<plVars, rcVars, nmVars, auxVars>>)
    \/ (\E t \in ProdThreads : ThTick(t) /\ UNCHANGED <<plVars, rcVars, nmVars, auxVars>>)
    \/ (\E t \in ProdThreads : ThAdd(t) /\ UNCHANGED <<plVars, rcVars, nmVars, auxVars>>)
    \/ (\E t \in ProdThreads : ThMark(t) /\ UNCHANGED <<plVars, rcVars, nmVars, auxVars>>)
    \/ (\E t \in ProdThreads : ThWake(t) /\ UNCHANGED <<plVars, rcVars, nmVars, auxVars>>)
    \/ (rec_clock < MaxProdClock /\ RecTick /\ UNCHANGED <<plVars, rcVars, nmVars, auxVars>>)

SpecProd == ProdInit /\ [][ProdNext]_vars

\* The steps by which a call of the caller thread that has begun goes on to its
\* return: the thread runs, a join ends with its timeout at the latest, and the
\* buffer's lock is held by others only for the length of one of their steps.
CallerReturns ==
    \/ RecStartFinish
    \/ RecStopJoin
    \/ RecStopSave
    \/ RecAbortFinish
    \/ RecAddCommandAppend
    \/ RecAddRobotFrameAppend
    \/ RecAddWebcamFrameAppend

\* SpecProd with a caller thread that keeps running; nothing is assumed of the
\* sampler thread, which may stay in a step for ever.
SpecProdFair == ProdInit /\ [][ProdNext]_vars /\ WF_vars(CallerReturns /\ UNCHANGED <<plVars, rcVars, nmVars, auxVars>>)

---------------------------------------------------------------------------
\* SpecSave: one CommandRecorder recording chassis-speed, gripper and arm commands
\* in any order, stopped, restarted and saved at any moment.

MaxRecordLen == 4

\* What RecordingDriver records (driver/recording.py): two speeds, a gripper
\* command, an arm move.
RecordSet == {<<"chassis_speed", 1>>, <<"chassis_speed", 2>>, <<"gripper_open", 50>>,
              <<"arm_move", 1>>, <<"stop", 0>>}

SaveInit ==
    /\ RcInit
    /\ NmUnused
    /\ FbUnused
    /\ PlUnused
    /\ RecUnused
    /\ AuxUnused

SaveNext ==
    \/ (RcStart /\ UNCHANGED <<fbVars, plVars, recVars, nmVars, auxVars>>)
    \/ (RcStop /\ UNCHANGED <<fbVars, plVars, recVars, nmVars, auxVars>>)
    \/ (/\ Len(rc_commands) < MaxRecordLen
        /\ \E c \in RecordSet : RcRecord(c[1], c[2])
        /\ UNCHANGED <<fbVars, plVars, recVars, nmVars, auxVars>>)
    \/ (RcReadY /\ UNCHANGED <<fbVars, plVars, recVars, nmVars, auxVars>>)
    \/ (RcReadZ /\ UNCHANGED <<fbVars, plVars, recVars, nmVars, auxVars>>)
    \/ (RcSave /\ UNCHANGED <<fbVars, plVars, recVars, nmVars, auxVars>>)

SpecSave == SaveInit /\ [][SaveNext]_vars

\* ---- one session of two ticks whose frame writes may fail ----

MaxFailClock == 2
MaxFailCmds == 1

FailInit ==
    /\ RecInitWith(FALSE, ProdThreads)
    /\ FbInitWith(MaxFramesOf(AggConfig[1], AggConfig[2]))
    /\ PlUnused
    /\ RcUnused
    /\ NmUnused
    /\ AuxUnused

FailNext ==
    \/ ((rec_recording \/ rec_session < Cardinality(ProdThreads)) /\ RecStartBegin
            /\ UNCHANGED <<plVars, rcVars, nmVars, auxVars>>)
    \/ (RecStartFinish /\ UNCHANGED <<plVars, rcVars, nmVars, auxVars>>)
    \/ (RecStopBegin /\ UNCHANGED <<plVars, rcVars, nmVars, auxVars>>)
    \/ (RecStopJoin /\ UNCHANGED <<plVars, rcVars, nmVars, auxVars>>)
    \/ (RecStopSave /\ UNCHANGED <<plVars, rcVars, nmVars, auxVars>>)
    \/ (RecAbortBegin /\ UNCHANGED <<plVars, rcVars, nmVars, auxVars>>)
    \/ (RecAbortFinish /\ UNCHANGED <<plVars, rcVars, nmVars, auxVars>>)
    \/ ((~ rec_recording \/ Len(rec_counted) < MaxFailCmds) /\ RecAddCommandStamp
            /\ UNCHANGED <<plVars, rcVars, nmVars, auxVars>>)
    \/ (RecAddCommandAppend /\ UNCHANGED <<plVars, rcVars, nmVars, auxVars>>)
    \/ (\E t \in ProdThreads : ThLoop(t) /\ UNCHANGED <<plVars, rcVars, nmVars, auxVars>>)
    \/ (\E t \in ProdThreads : ThTick(t) /\ UNCHANGED <<plVars, rcVars, nmVars, auxVars>>)
    \/ (\E t \in ProdThreads : ThAdd(t) /\ UNCHANGED <<plVars, rcVars, nmVars, auxVars>>)
    \/ (\E t \in ProdThreads : ThMark(t) /\ UNCHANGED <<plVars, rcVars, nmVars, auxVars>>)
    \/ (\E t \in ProdThreads : ThWake(t) /\ UNCHANGED <<plVars, rcVars, nmVars, auxVars>>)
    \/ (rec_clock < MaxFailClock /\ RecTick /\ UNCHANGED <<plVars, rcVars, nmVars, auxVars>>)

SpecFail == FailInit /\ [][FailNext]_vars

\* ---- producers, the sampler's ticks and start/stop/abort around the buffer lock ----

LockInit ==
    /\ LkInit
    /\ AcUnused
    /\ DlUnused
    /\ FbUnused
    /\ PlUnused
    /\ RecUnused
    /\ RcUnused
    /\ NmUnused

LockNext ==
    \/ (\E m \in ProducerMethods : LkProduce(m)
            /\ UNCHANGED <<fbVars, plVars, recVars, rcVars, nmVars, acVars, dlVars>>)
    \/ (\E m \in ControlMethods : LkControl(m)
            /\ UNCHANGED <<fbVars, plVars, recVars, rcVars, nmVars, acVars, dlVars>>)
    \/ (\E p \in LkThreads : LkStep(p) /\ UNCHANGED <<fbVars, plVars, recVars, rcVars, nmVars, acVars, dlVars>>)
    \/ (\E p \in Samplers : LkLoop(p) /\ UNCHANGED <<fbVars, plVars, recVars, rcVars, nmVars, acVars, dlVars>>)
    \/ (\E p \in Samplers : LkWake(p) /\ UNCHANGED <<fbVars, plVars, recVars, rcVars, nmVars, acVars, dlVars>>)

SpecLock == LockInit /\ [][LockNext]_vars

\* A step of a thread that is inside the with-block.
LkHeldStep == \E p \in LkThreads : lk_holder = p /\ LkStep(p)

\* Fair scheduling: a thread inside the with-block goes on, and a caller thread
\* that is inside a call gets its turn, the lock included, if it can take its next
\* step again and again. Nothing is assumed of a sampler outside the with-block.
SpecLockFair ==
    /\ LockInit /\ [][LockNext]_vars
    /\ WF_vars(LkHeldStep /\ UNCHANGED <<fbVars, plVars, recVars, rcVars, nmVars, acVars, dlVars>>)
    /\ SF_vars(LkStep("producer") /\ UNCHANGED <<fbVars, plVars, recVars, rcVars, nmVars, acVars, dlVars>>)
    /\ SF_vars(LkStep("control") /\ UNCHANGED <<fbVars, plVars, recVars, rcVars, nmVars, acVars, dlVars>>)

\* ---- an ActionController called by one thread, with its waiter threads ----

ActInit ==
    /\ AcInit
    /\ LkUnused
    /\ DlUnused
    /\ FbUnused
    /\ PlUnused
    /\ RecUnused
    /\ RcUnused
    /\ NmUnused

ActNext ==
    \/ (ac_caller = "idle" /\ AcExecute("execute_action")
            /\ UNCHANGED <<fbVars, plVars, recVars, rcVars, nmVars, lkVars, dlVars>>)
    \/ (AcMoveBegin /\ UNCHANGED <<fbVars, plVars, recVars, rcVars, nmVars, lkVars, dlVars>>)
    \/ (AcMoveSend /\ UNCHANGED <<fbVars, plVars, recVars, rcVars, nmVars, lkVars, dlVars>>)
    \/ (\E w \in Actions : AcWaiterMark(w)
            /\ UNCHANGED <<fbVars, plVars, recVars, rcVars, nmVars, lkVars, dlVars>>)
    \/ (\E w \in Actions : AcWaiterDone(w)
            /\ UNCHANGED <<fbVars, plVars, recVars, rcVars, nmVars, lkVars, dlVars>>)
    \/ (\E w \in Actions : AcComplete(w)
            /\ UNCHANGED <<fbVars, plVars, recVars, rcVars, nmVars, lkVars, dlVars>>)

SpecAct == ActInit /\ [][ActNext]_vars

\* ---- drive_loop polling the Back button, iteration after iteration ----

DriveInit ==
    /\ DlInit
    /\ LkUnused
    /\ AcUnused
    /\ FbUnused
    /\ PlUnused
    /\ RecUnused
    /\ RcUnused
    /\ NmUnused

DriveNext ==
    \/ (/\ dl_episodes < MaxEpisodes
        /\ \E back, saved \in BOOLEAN : \E ending \in DlEndings :
              DlIterate(back, saved, ending)
        /\ UNCHANGED <<fbVars, plVars, recVars, rcVars, nmVars, lkVars, acVars>>)
    \/ (DlInterrupt /\ UNCHANGED <<fbVars, plVars, recVars, rcVars, nmVars, lkVars, acVars>>)

SpecDrive == DriveInit /\ [][DriveNext]_vars

\* ---- execute_command on command dictionaries of every type ----

ExecValues == {0, 1, 2}

ExecCommandSet ==
    {[type |-> "chassis_speed", vx |-> a, vy |-> b, vz |-> c] :
         a \in ExecValues, b \in ExecValues, c \in ExecValues}
    \cup {[type |-> "chassis_speed", vx |-> a, vy |-> b] : a \in ExecValues, b \in ExecValues}
    \cup {[type |-> "chassis_move", x |-> a, y |-> b, z |-> c] :
              a \in ExecValues, b \in ExecValues, c \in ExecValues}
    \cup {[type |-> "chassis_move", x |-> a, y |-> b, z |-> 0, xy_speed |-> c] :
              a \in ExecValues, b \in ExecValues, c \in ExecValues}
    \cup {[type |-> "chassis_move", x |-> 0, y |-> a, z |-> b, z_speed |-> c] :
              a \in ExecValues, b \in ExecValues, c \in ExecValues}
    \cup {[type |-> "chassis_move", x |-> a, y |-> 0, z |-> 0, xy_speed |-> b, z_speed |-> c] :
              a \in ExecValues, b \in ExecValues, c \in ExecValues}
    \cup {[type |-> "chassis_move", x |-> a, z |-> b] : a \in ExecValues, b \in ExecValues}
    \cup {[type |-> "arm_move", x |-> a, y |-> b] : a \in ExecValues, b \in ExecValues}
    \cup {[type |-> "arm_move", y |-> a] : a \in ExecValues}
    \cup {[type |-> t] : t \in {"arm_recenter", "gripper_open", "gripper_close",
                                 "gripper_stop", "stop", "wait"}}
    \cup {[type |-> t, power |-> a] : t \in {"gripper_open", "gripper_close"},
                                      a \in ExecValues}
    \cup {[time |-> a] : a \in ExecValues}

ExecInit ==
    /\ PlInitWith(<<>>)
    /\ FbUnused
    /\ RecUnused
    /\ RcUnused
    /\ NmUnused
    /\ AuxUnused

ExecNext ==
    \E cmd \in ExecCommandSet : PlExecute(cmd) /\ UNCHANGED <<fbVars, recVars, rcVars, nmVars, auxVars>>

SpecExec == ExecInit /\ [][ExecNext]_vars

\* ---- a player on recordings of several durations, as time passes ----

MaxProgClock == 4
ProgDurations == -1 .. 3

ProgLog == <<[time |-> 1, type |-> "stop", expected_pos |-> NoPos]>>

ProgInit ==
    /\ \E d \in ProgDurations : PlUnbuilt(RecordingFile(ProgLog, d))
    /\ FbUnused
    /\ RecUnused
    /\ RcUnused
    /\ NmUnused
    /\ AuxUnused

ProgNext ==
    \/ (PlConstruct /\ UNCHANGED <<fbVars, recVars, rcVars, nmVars, auxVars>>)
    \/ (pl_built = "yes" /\ PlStart /\ UNCHANGED <<fbVars, recVars, rcVars, nmVars, auxVars>>)
    \/ (pl_built = "yes" /\ PlStop /\ UNCHANGED <<fbVars, recVars, rcVars, nmVars, auxVars>>)
    \/ (pl_built = "yes" /\ PlGetPending /\ UNCHANGED <<fbVars, recVars, rcVars, nmVars, auxVars>>)
    \/ (pl_clock < MaxProgClock /\ PlTick /\ UNCHANGED <<fbVars, recVars, rcVars, nmVars, auxVars>>)

SpecProg == ProgInit /\ [][ProgNext]_vars

\* ---- one CommandRecorder recording, while the pose subscription delivers poses ----

MaxTapeLen == 2
MaxTapeClock == 2

TapeRecordSet == {<<"chassis_speed", 1>>, <<"chassis_move", 1>>, <<"arm_move", 1>>}
TapePosSet == {<<1, 2, 90>>}

TapeInit ==
    /\ RcInit
    /\ NmUnused
    /\ FbUnused
    /\ PlUnused
    /\ RecUnused
    /\ AuxUnused

TapeNext ==
    \/ (RcStart /\ UNCHANGED <<fbVars, plVars, recVars, nmVars, auxVars>>)
    \/ (RcStop /\ UNCHANGED <<fbVars, plVars, recVars, nmVars, auxVars>>)
    \/ (/\ ~ rc_recording \/ Len(rc_commands) < MaxTapeLen
        /\ \E c \in TapeRecordSet : RcRecord(c[1], c[2])
        /\ UNCHANGED <<fbVars, plVars, recVars, nmVars, auxVars>>)
    \/ (RcReadY /\ UNCHANGED <<fbVars, plVars, recVars, nmVars, auxVars>>)
    \/ (RcReadZ /\ UNCHANGED <<fbVars, plVars, recVars, nmVars, auxVars>>)
    \/ (\E pos \in TapePosSet : RcUpdatePosition(pos)
            /\ UNCHANGED <<fbVars, plVars, recVars, nmVars, auxVars>>)
    \/ (rc_clock < MaxTapeClock /\ RcTick /\ UNCHANGED <<fbVars, plVars, recVars, nmVars, auxVars>>)

SpecTape == TapeInit /\ [][TapeNext]_vars

\* ---- the position check of CommandPlayer on poses around the tolerance ----

\* Expected poses <<x, y, yaw>> in centimetres and degrees.
PoseExpSet == {<<100, 0, 0>>, <<0, 0, 179>>, <<0, 0, -179>>}

\* Live poses on both sides of each bound, and yaws more than a turn away.
PoseLiveSet ==
    {<<x, y, z>> : x \in {0, 50, 98, 99, 100, 101, 102},
                   y \in {-2, -1, 0, 1, 2},
                   z \in {-541, -181, -180, -179, -178, -2, -1, 0, 1, 2,
                          178, 179, 180, 181, 539}}

\* Logs of one command that carries an expected pose.
PoseLogs ==
    {<<[time |-> 0, type |-> "chassis_speed", vx |-> 0, vy |-> 0, vz |-> 0,
      expected_pos |-> p]>> : p \in PoseExpSet}

PoseInit ==
    /\ \E log \in PoseLogs : PlInitWith(log)
    /\ FbUnused
    /\ RecUnused
    /\ RcUnused
    /\ NmUnused
    /\ AuxUnused

PoseNext ==
    \/ (PlStart /\ UNCHANGED <<fbVars, recVars, rcVars, nmVars, auxVars>>)
    \/ (\E pos \in PoseLiveSet : PlUpdatePosition(pos) /\ UNCHANGED <<fbVars, recVars, rcVars, nmVars, auxVars>>)
    \/ (PlGetNext /\ UNCHANGED <<fbVars, recVars, rcVars, nmVars, auxVars>>)

SpecPose == PoseInit /\ [][PoseNext]_vars

\* ---- CommandPlayer constructed on whatever is at recording_path ----

\* Commands as CommandRecorder writes them, and a command without 'time'.
LoadCommandSet ==
    {[time |-> t, type |-> "chassis_speed", vx |-> 0, vy |-> 0, vz |-> 0,
      expected_pos |-> NoPos] : t \in 0 .. MaxLogTime}
    \cup {[time |-> t, type |-> "arm_move", x |-> 0, y |-> 0,
          expected_pos |-> <<0, 0, 0>>] : t \in 0 .. MaxLogTime}
    \cup {[type |-> "gripper_open", expected_pos |-> NoPos]}

\* No file, a file that is not JSON, and documents of up to MaxLogLen commands.
LoadFiles ==
    {MissingFile, CorruptFile}
    \cup {DocumentFile(c) : c \in UNION {[1 .. n -> LoadCommandSet] : n \in 0 .. MaxLogLen}}

LoadInit ==
    /\ \E file \in LoadFiles : PlUnbuilt(file)
    /\ FbUnused
    /\ RecUnused
    /\ RcUnused
    /\ NmUnused
    /\ AuxUnused

LoadNext ==
    \/ (PlConstruct /\ UNCHANGED <<fbVars, recVars, rcVars, nmVars, auxVars>>)
    \/ (pl_built = "yes" /\ PlStart /\ UNCHANGED <<fbVars, recVars, rcVars, nmVars, auxVars>>)
    \/ (pl_built = "yes" /\ PlStop /\ UNCHANGED <<fbVars, recVars, rcVars, nmVars, auxVars>>)
    \/ (pl_built = "yes" /\ PlGetPending /\ UNCHANGED <<fbVars, recVars, rcVars, nmVars, auxVars>>)
    \/ (pl_built = "yes" /\ PlGetNext /\ UNCHANGED <<fbVars, recVars, rcVars, nmVars, auxVars>>)
    \/ (\E k \in 1 .. Len(pl_returned) :
            PlExecute(pl_commands[pl_returned[k]]) /\ UNCHANGED <<fbVars, recVars, rcVars, nmVars, auxVars>>)
    \/ (pl_clock < MaxClock /\ PlTick /\ UNCHANGED <<fbVars, recVars, rcVars, nmVars, auxVars>>)

SpecLoad == LoadInit /\ [][LoadNext]_vars

\* ---- normalize_action and denormalize_action on ranges and raw actions ----

\* (min, max) of a channel: as the docstrings give them, one of whole numbers
\* that do not divide evenly, an empty one (max = min) and an inverted one.
NormRangeSet == {<<-1, 1>>, <<0, 100>>, <<-3, 4>>, <<2, 2>>, <<1, -1>>}

\* action_ranges: every channel with one range of the set, a map that gives each
\* channel another range, and a map that names one channel only.
NormRanges ==
    {[name \in ActionFields |-> r] : r \in NormRangeSet}
    \cup {[name \in ActionFields |->
              IF name \in {"gripper_open", "gripper_close"} THEN <<0, 100>>
              ELSE IF name = "rotate_z" THEN <<-3, 4>> ELSE <<-1, 1>>]}
    \cup {[name \in {"move_x"} |-> <<-2, 2>>]}

NormValues == (-4 .. 5) \cup {50, 100, 101}

\* raw_actions: every field with one value, one field only, and mixed values.
NormRaws ==
    {[name \in ActionFields |-> v] : v \in NormValues}
    \cup {[name \in {"move_x"} |-> v] : v \in NormValues}
    \cup {[name \in {"gripper_open", "arm_y"} |-> v] : v \in NormValues}
    \cup {[name \in ActionFields |->
              IF name = "move_x" THEN 1 ELSE IF name = "gripper_open" THEN 50
              ELSE IF name = "rotate_z" THEN -7 ELSE 0]}

NormInit ==
    /\ \E ranges \in NormRanges, raw \in NormRaws : NmInitWith(ranges, raw)
    /\ FbUnused
    /\ PlUnused
    /\ RecUnused
    /\ RcUnused
    /\ AuxUnused

NormNext ==
    \/ (Normalize /\ UNCHANGED <<fbVars, plVars, recVars, rcVars, auxVars>>)
    \/ (Denormalize /\ UNCHANGED <<fbVars, plVars, recVars, rcVars, auxVars>>)

SpecNorm == NormInit /\ [][NormNext]_vars

\* ---- a LeRobotRecorder constructed with any fps, and the normalizer on any ranges ----

FpsArgs == -2 .. 2
ConfThreads == {1}

ConfInit ==
    /\ \E fps \in FpsArgs, dry_run \in BOOLEAN : RecUnbuilt(fps, dry_run, ConfThreads)
    /\ FbUnused
    /\ \E ranges \in NormRanges : NmInitWith(ranges, [name \in {"move_x"} |-> 1])
    /\ PlUnused
    /\ RcUnused
    /\ AuxUnused

ConfNext ==
    \/ (RecConstruct /\ UNCHANGED <<plVars, rcVars, nmVars, auxVars>>)
    \/ (rec_built = "yes" /\ (rec_recording \/ rec_session < Cardinality(ConfThreads))
            /\ RecStartBegin /\ UNCHANGED <<plVars, rcVars, nmVars, auxVars>>)
    \/ (RecStartFinish /\ UNCHANGED <<plVars, rcVars, nmVars, auxVars>>)
    \/ (rec_built = "yes" /\ RecStopBegin /\ UNCHANGED <<plVars, rcVars, nmVars, auxVars>>)
    \/ (RecStopJoin /\ UNCHANGED <<plVars, rcVars, nmVars, auxVars>>)
    \/ (RecStopSave /\ UNCHANGED <<plVars, rcVars, nmVars, auxVars>>)
    \/ (Normalize /\ UNCHANGED <<fbVars, plVars, recVars, rcVars, auxVars>>)

SpecConf == ConfInit /\ [][ConfNext]_vars

---------------------------------------------------------------------------
\* Properties of SpecPlay

\* The pose is within the tolerance of an expected pose: one centimetre on x and
\* on y, one degree on the yaw difference taken the short way round.
WithinTolerance(expected, pos) ==
    /\ Abs(pos[1] - expected[1]) <= 1
    /\ Abs(pos[2] - expected[2]) <= 1
    /\ \E turns \in 0 .. 2 : Abs(Abs(pos[3] - expected[3]) - 360 * turns) <= 1

\* C2: a call of get_next_command_with_position while playing returns the command
\* at the cursor and advances the cursor by one when that command has no
\* expected_pos or the live pose is within tolerance of it; otherwise it returns
\* nothing and leaves the cursor and the rest of the player as they were.
C2_Step ==
    (pl_call'.op = "next" /\ IsPlaying) =>
        LET cmd == pl_commands[pl_index + 1]
        IN  IF cmd.expected_pos = NoPos \/ WithinTolerance(cmd.expected_pos, pl_position)
            THEN /\ pl_call'.ret = <<cmd>>
                 /\ pl_index' = pl_index + 1
                 /\ UNCHANGED <<pl_commands, pl_start_time, pl_stopped, pl_position>>
            ELSE /\ pl_call'.ret = <<>>
                 /\ UNCHANGED <<pl_commands, pl_index, pl_start_time, pl_stopped,
                                pl_position, pl_clock, pl_returned, pl_executed, pl_driver>>
C2_PositionGatedReplay == [][C2_Step]_vars

\* C2 witness: a playing player has just withheld a command whose expected pose
\* the live pose does not match, and the cursor still points at it.
C2_Witness ==
    /\ pl_call.op = "next" /\ pl_call.playing /\ pl_call.ret = <<>>
    /\ pl_index = pl_call.index_before
    /\ pl_commands[pl_index + 1].expected_pos # NoPos
    /\ pl_returned # <<>>

\* The commands of s whose time offset is at most t, in the order of s.
DueBy(s, t) == LET Due(c) == c.time <= t IN SelectSeq(s, Due)

---------------------------------------------------------------------------
\* Properties of SpecCap and SpecAgg

\* C8: each frame deque holds at most max_frames entries and the command deque at
\* most 10 * max_frames, and each holds exactly the entries added last, in the
\* order they were added.
C8_BoundedFifo ==
    /\ Len(fb_robot_frames) <= fb_max_frames
    /\ Len(fb_webcam_frames) <= fb_max_frames
    /\ Len(fb_commands) <= 10 * fb_max_frames
    /\ fb_robot_frames = LastN(fb_hist_robot, fb_max_frames)
    /\ fb_webcam_frames = LastN(fb_hist_webcam, fb_max_frames)
    /\ fb_commands = LastN(fb_hist_cmd, 10 * fb_max_frames)

\* C8 witness: max_frames + 1 frames went into one source and more than
\* 10 * max_frames commands into the command deque of a buffer that holds some.
C8_Witness ==
    /\ fb_max_frames >= 1
    /\ Len(fb_hist_robot) = fb_max_frames + 1
    /\ Len(fb_robot_frames) = fb_max_frames
    /\ Len(fb_hist_cmd) > 10 * fb_max_frames

\* The sum of field k over the commands of q stamped in (start, end].
RECURSIVE WindowSum(_, _, _, _)
WindowSum(q, k, start, end) ==
    IF q = <<>> THEN 0
    ELSE (IF start < Head(q)[1] /\ Head(q)[1] <= end /\ k \in DOMAIN Head(q)[2]
          THEN Head(q)[2][k] ELSE 0)
         + WindowSum(Tail(q), k, start, end)

NumericFields == ActionFields \ {"arm_recenter"}
GripperFields == {"gripper_open", "gripper_close"}

\* C9 as stated: aggregate_commands returns, for every numeric field, the sum of
\* the field over the buffered commands with start < ts <= end (0 when no command
\* in the window carries it).
C9_EveryNumericFieldIsSum ==
    fb_agg.called =>
        \A k \in NumericFields :
            fb_agg.result[k] = WindowSum(fb_commands, k, fb_agg.start, fb_agg.end)

\* C9 amended: that holds for every numeric field but the two gripper fields,
\* for which the value returned is the sum brought into [0, 100].
C9_SumAndClippedGripper ==
    fb_agg.called =>
        \A k \in NumericFields :
            LET sum == WindowSum(fb_commands, k, fb_agg.start, fb_agg.end)
            IN  fb_agg.result[k] =
                    IF k \in GripperFields
                    THEN (IF sum < 0 THEN 0 ELSE IF sum > 100 THEN 100 ELSE sum)
                    ELSE sum

\* C9 witness: the window (0, 2] over {t=1: move_x=1}, {t=2: move_x=2} and a
\* command at t=0, which gives move_x = 3.
C9_Witness ==
    /\ fb_agg.called /\ fb_agg.start = 0 /\ fb_agg.end = 2
    /\ \E i, j, l \in 1 .. Len(fb_commands) :
          /\ fb_commands[i] = <<1, [move_x |-> 1]>>
          /\ fb_commands[j][1] = 2 /\ "move_x" \in DOMAIN fb_commands[j][2]
          /\ fb_commands[j][2].move_x = 2
          /\ fb_commands[l][1] = 0 /\ "move_x" \in DOMAIN fb_commands[l][2]
    /\ fb_agg.result.move_x = 3

\* Some command of q stamped in (start, end] sets arm_recenter.
RecenterInWindow(q, start, end) ==
    \E i \in 1 .. Len(q) :
        /\ start < q[i][1] /\ q[i][1] <= end
        /\ "arm_recenter" \in DOMAIN q[i][2]
        /\ q[i][2].arm_recenter # 0

\* C10: arm_recenter is 1 when at least one command in the window sets it and 0
\* otherwise, never more than 1.
C10_RecenterIsOr ==
    fb_agg.called =>
        /\ fb_agg.result.arm_recenter =
              (IF RecenterInWindow(fb_commands, fb_agg.start, fb_agg.end) THEN 1 ELSE 0)
        /\ fb_agg.result.arm_recenter <= 1

\* C10 witness: two commands in the window set arm_recenter and the result is 1.
C10_Witness ==
    /\ fb_agg.called
    /\ \E i, j \in 1 .. Len(fb_commands) :
          /\ i < j
          /\ RecenterInWindow(<<fb_commands[i]>>, fb_agg.start, fb_agg.end)
          /\ RecenterInWindow(<<fb_commands[j]>>, fb_agg.start, fb_agg.end)
    /\ fb_agg.result.arm_recenter = 1


---------------------------------------------------------------------------
\* Properties of SpecRec

\* C1: in a recording session every command accepted into the buffer is counted in
\* the aggregate of exactly one tick: none is counted twice, and none whose
\* timestamp lies at or before the end of a window already aggregated is left
\* uncounted, whatever the interleaving of add_command's timestamping and append
\* with the sampler's tick.
C1_EachCommandCountedOnce ==
    \A i \in 1 .. Len(fb_commands) :
        LET ts == fb_commands[i][1]
            seq == fb_commands[i][2].seq
        IN  /\ rec_counted[seq] <= 1
            /\ ts <= rec_window_end => rec_counted[seq] = 1

\* A step in which the caller thread returns from stop() or abort().
TerminalStep ==
    /\ rec_pc \in {"stop_join", "stop_save", "abort_join"}
    /\ rec_pc' = "idle"

\* A step in which the caller thread returns from a start() that began a session.
StartReturns ==
    /\ rec_pc = "start_clear"
    /\ rec_pc' = "idle"

BuffersEmpty ==
    /\ fb_robot_frames = <<>>
    /\ fb_webcam_frames = <<>>
    /\ fb_commands = <<>>

C5_Step ==
    /\ (~ rec_recording /\ rec_recording') => rec_call'.op = "start"
    /\ (rec_recording /\ ~ rec_recording') => rec_call'.op \in {"stop", "abort"}
    /\ TerminalStep => (~ rec_recording' /\ rec_pc' = "idle")
    /\ StartReturns => (rec_recording' /\ rec_frame_count' = 0 /\ BuffersEmpty')

\* C5: is_recording is false initially, becomes true only by start() and false
\* only by stop() or abort(); when stop() or abort() returns the recorder is idle,
\* and when a later start() returns the session is fresh: recording, frame
\* counter 0, all three buffers empty.
C5_Lifecycle == (~ rec_recording) /\ [][C5_Step]_vars

\* A step in which stop(), called on a recording session, returns.
StopReturns ==
    /\ rec_pc \in {"stop_join", "stop_save"}
    /\ rec_pc' = "idle"

\* The step persists the episode in progress.
Persists == rec_store' = Append(rec_store, rec_episode)

C6_Step ==
    /\ StopReturns =>
          /\ rec_call'.op = "stop"
          /\ rec_call'.ret \in {"True", "False"}
          /\ rec_call'.ret = "True" <=> (~ rec_dry_run /\ Persists)
          /\ rec_dry_run => rec_store' = rec_store
          /\ ~ rec_recording' /\ rec_pc' = "idle"
    /\ rec_store' # rec_store => (rec_pc = "stop_save" /\ Persists)
    /\ rec_pc' = "stop_save" => rec_pc \in {"stop_join", "stop_save"}
    /\ (rec_pc' = "stop_join" /\ rec_pc # "stop_join") => (rec_pc = "idle" /\ rec_recording)

\* C6: stop() on a recording session returns True exactly when the session is
\* not a dry run and the episode was persisted; a dry run persists nothing; a
\* persist happens only inside such a stop(), once, and whatever its outcome
\* stop() leaves the recorder idle and not recording.
C6_StopReportsPersist == [][C6_Step]_vars

\* C6 witness: stop() has returned False from a persist that failed: not a dry
\* run, the dataset and its episode still in hand, the recorder idle.
C6_Witness ==
    /\ rec_call = RecCall("stop", "False")
    /\ ~ rec_dry_run
    /\ rec_dataset
    /\ rec_episode # <<>>
    /\ rec_pc = "idle"
    /\ ~ rec_recording
    /\ rec_store = <<>>

\* The sessions whose frames an episode of the store holds.
PersistedSessions ==
    UNION {{rec_store[e][f].session : f \in 1 .. Len(rec_store[e])} :
           e \in 1 .. Len(rec_store)}

\* A step of abort().
AbortStep == (rec_pc = "idle" /\ rec_pc' = "abort_join") \/ rec_pc = "abort_join"

C7_Step ==
    /\ AbortStep => rec_store' = rec_store
    /\ (rec_pc = "abort_join" /\ rec_pc' = "idle") =>
          (~ rec_dataset' /\ rec_episode' = <<>> /\ ~ rec_recording')

\* C7: abort() never saves an episode, drops the episode in progress and leaves
\* is_recording false; and no frame captured in a session that abort() ended is
\* ever in an episode persisted later.
C7_AbortDiscards ==
    /\ [](PersistedSessions \cap rec_aborted = {})
    /\ [][C7_Step]_vars

---------------------------------------------------------------------------
\* Properties of SpecGrip

\* C11: whatever the number and magnitude of the gripper commands in the window,
\* the gripper_open and gripper_close values aggregate_commands returns lie in
\* [min, max], and equal the raw sum whenever the sum is already in that range.
C11_GripperClamped ==
    fb_agg.called =>
        \A k \in GripperFields :
            LET sum == WindowSum(fb_commands, k, fb_agg.start, fb_agg.end)
            IN  /\ GripperMin <= fb_agg.result[k]
                /\ fb_agg.result[k] <= GripperMax
                /\ (GripperMin <= sum /\ sum <= GripperMax) => fb_agg.result[k] = sum

\* C11 witness: one window whose gripper_open sum is below the range and whose
\* gripper_close sum is above it, both brought to the nearer end of the range.
C11_Witness ==
    /\ fb_agg.called
    /\ WindowSum(fb_commands, "gripper_open", fb_agg.start, fb_agg.end) < GripperMin
    /\ WindowSum(fb_commands, "gripper_close", fb_agg.start, fb_agg.end) > GripperMax
    /\ fb_agg.result.gripper_open = GripperMin
    /\ fb_agg.result.gripper_close = GripperMax

---------------------------------------------------------------------------
\* Properties of SpecLook

\* The frames buffered for a source.
BufferOf(source) == IF source = "robot" THEN fb_robot_frames ELSE fb_webcam_frames

\* C12: get_frame_at_time(target, source, offset) returns None when the buffer of
\* the source is empty, and else a frame buffered for that source whose timestamp
\* is as near to target + offset as any buffered for it; what it returns is never
\* a frame of the other source.
C12_NearestFrameOfSource ==
    fb_got.called =>
        LET frames == BufferOf(fb_got.source)
            adjusted == fb_got.target + fb_got.offset
        IN  IF frames = <<>>
            THEN fb_got.result = NoneFrame
            ELSE /\ fb_got.result.source = fb_got.source
                 /\ \E i \in 1 .. Len(frames) :
                        /\ frames[i][2] = fb_got.result
                        /\ \A j \in 1 .. Len(frames) :
                               Abs(frames[i][1] - adjusted) <= Abs(frames[j][1] - adjusted)

\* C12 witness: a lookup with an offset among robot frames at different distances,
\* none of them at the adjusted time, while a webcam frame sits exactly there; the
\* frame returned is not the first nor the last of the robot buffer.
C12_Witness ==
    /\ fb_got.called /\ fb_got.source = "robot" /\ fb_got.offset # 0
    /\ Len(fb_robot_frames) = 3
    /\ \A i \in 1 .. 3 : fb_robot_frames[i][1] # fb_got.target + fb_got.offset
    /\ \E i \in 1 .. Len(fb_webcam_frames) :
          fb_webcam_frames[i][1] = fb_got.target + fb_got.offset
    /\ fb_got.result = fb_robot_frames[2][2]
    /\ fb_robot_frames[1][1] # fb_robot_frames[2][1]
    /\ fb_robot_frames[3][1] # fb_robot_frames[2][1]

---------------------------------------------------------------------------
\* Properties of SpecProd

AddOps == {"add_command", "add_robot_frame", "add_webcam_frame"}
AppendPc == [add_command |-> "cmd_append", add_robot_frame |-> "robot_append",
             add_webcam_frame |-> "webcam_append"]

\* The recorder's fields but the record of the last call, and the sampler's.
recFields == <<rec_dry_run, rec_recording, rec_thread, rec_stop_event, rec_frame_count,
               rec_start_time, rec_last_frame_time, rec_dataset, rec_episode, rec_store,
               rec_pc, rec_pending, thVars>>

buffers == <<fb_robot_frames, fb_webcam_frames, fb_commands>>

\* The step appends exactly one entry, stamped as pending, to the deque q.
AppendsOne(q, hist) ==
    /\ hist' = Append(hist, rec_pending)
    /\ \/ q' = Append(q, rec_pending)
       \/ q # <<>> /\ q' = Append(Tail(q), rec_pending)

C13_Step ==
    /\ \A op \in AddOps :
          (rec_call' # rec_call /\ rec_call'.op = op) =>
              IF rec_recording
              THEN rec_pc' = AppendPc[op] /\ UNCHANGED buffers
              ELSE UNCHANGED <<fbVars, recFields>>
    /\ (rec_pc = "cmd_append" /\ rec_pc' = "idle") =>
          /\ AppendsOne(fb_commands, fb_hist_cmd)
          /\ UNCHANGED <<fb_robot_frames, fb_webcam_frames>>
    /\ (rec_pc = "robot_append" /\ rec_pc' = "idle") =>
          /\ AppendsOne(fb_robot_frames, fb_hist_robot)
          /\ UNCHANGED <<fb_commands, fb_webcam_frames>>
    /\ (rec_pc = "webcam_append" /\ rec_pc' = "idle") =>
          /\ AppendsOne(fb_webcam_frames, fb_hist_webcam)
          /\ UNCHANGED <<fb_robot_frames, fb_commands>>
    /\ buffers' # buffers =>
          rec_pc \in {"cmd_append", "robot_append", "webcam_append", "start_clear"}
    /\ (rec_pc' # rec_pc /\ rec_pc' \in {"cmd_append", "robot_append", "webcam_append"}) =>
          (rec_recording /\ rec_pc = "idle")

\* C13: add_command, add_robot_frame and add_webcam_frame change nothing (no
\* buffer, no recorder field) when the recorder is not recording; while it is
\* recording each call appends exactly one entry to its own buffer and leaves the
\* other two alone; nothing else but start()'s clear changes a buffer.
C13_ProducersGated == [][C13_Step]_vars

\* C13 witness: add_robot_frame has been called and returned after the session
\* ended, the buffers still holding what the session put in them.
C13_Witness ==
    /\ rec_call.op = "add_robot_frame"
    /\ rec_pc = "idle"
    /\ ~ rec_recording
    /\ rec_session = 1
    /\ fb_robot_frames # <<>> /\ fb_webcam_frames # <<>> /\ fb_commands # <<>>

---------------------------------------------------------------------------
\* Properties of SpecSave

\* Entries i and i+1 of the log are two consecutive identical chassis-speed commands.
DuplicatePair(log, i) ==
    /\ i + 1 <= Len(log)
    /\ log[i].type = "chassis_speed" /\ log[i + 1].type = "chassis_speed"
    /\ log[i].key = log[i + 1].key

\* Entry j of the log is a command different from the chassis-speed command
\* before it, and not itself the repeat of an earlier gripper command.
DifferentCommand(log, j) ==
    /\ j <= Len(log)
    /\ log[j].type # "chassis_speed" \/ log[j].key # log[j - 1].key
    /\ \A h \in 1 .. j - 1 : log[h].type \in GripperTypes => log[h].type # log[j].type

\* The document holds entry n of the log.
InDoc(doc, n) == \E k \in 1 .. Len(doc) : doc[k].n = n

\* The document holds entries of the log, each once, in the order of the log.
OrderPreserved(doc, log) ==
    /\ \A k \in 1 .. Len(doc) : doc[k].n \in 1 .. Len(log) /\ doc[k] = log[doc[k].n]
    /\ \A k \in 1 .. Len(doc) - 1 : doc[k].n < doc[k + 1].n

\* C14: in the document save() writes, two consecutive identical chassis-speed
\* commands followed by a different command are collapsed into one entry, the
\* different command is kept and the order of the log is kept, wherever in the log
\* the pair stands, the very beginning included.
C14_DuplicatesCollapsed ==
    rc_doc.written =>
        /\ OrderPreserved(rc_doc.commands, rc_commands)
        /\ \A i \in 1 .. Len(rc_commands) :
              (DuplicatePair(rc_commands, i) /\ DifferentCommand(rc_commands, i + 2)) =>
                  /\ ~ (InDoc(rc_doc.commands, i) /\ InDoc(rc_doc.commands, i + 1))
                  /\ InDoc(rc_doc.commands, i + 2)

\* Properties of SpecPose

\* The command a retrieval call was made on.
CalledOn == pl_commands[pl_call.index_before + 1]

\* The last call was get_next_command_with_position on a playing player whose
\* command at the cursor carries an expected pose.
GateAsked ==
    /\ pl_call.op = "next" /\ pl_call.playing
    /\ CalledOn.expected_pos # NoPos

\* The yaw difference of two yaws, as the angle in (-180, 180].
NormYaw(a, b) == LET m == (a - b) % 360 IN IF m > 180 THEN m - 360 ELSE m

C16_YawWrap ==
    (GateAsked /\ pl_position[1] = CalledOn.expected_pos[1]
               /\ pl_position[2] = CalledOn.expected_pos[2]) =>
        LET e == CalledOn.expected_pos[3]
            p == pl_position[3]
        IN  /\ NormYaw(p, e) \in -180 .. 180
            /\ (pl_call.ret = <<CalledOn>>) <=> (NormYaw(p, e) \in -1 .. 1)
            /\ (e = 179 /\ p = -179) => (NormYaw(p, e) = 2 /\ pl_call.ret = <<>>)

\* C16 witness: with expected yaw 179 the command has just been released at live
\* yaw -180, one degree away across the wrap.
C16_Witness ==
    /\ GateAsked
    /\ pl_call.ret = <<CalledOn>>
    /\ CalledOn.expected_pos = <<0, 0, 179>>
    /\ pl_position = <<0, 0, -180>>

\* Properties of SpecProdFair

\* C17: cancellation is bounded: a stop() or abort() that has set the
\* cancellation flag and waits in its join completes, whatever the sampler thread
\* does, and leaves the recorder idle with no thread handle; and every call of a
\* recorder or buffer method that has begun returns.
C17_CancellationBounded ==
    /\ (rec_pc \in {"stop_join", "abort_join"}) ~>
           (rec_pc = "idle" /\ rec_call.op \in {"stop", "abort"}
               /\ ~ rec_recording /\ rec_thread = NoThread)
    /\ (rec_pc # "idle") ~> (rec_pc = "idle")
    /\ [](rec_pc \in {"stop_join", "abort_join"} => (rec_stop_event /\ ~ rec_recording))

\* C17 witness: stop() has returned and the recorder is idle while the sampler
\* thread it waited for is still inside a tick.
C17_Witness ==
    /\ rec_pc = "idle" /\ rec_call.op = "stop" /\ rec_call.ret # "none"
    /\ ~ rec_recording /\ rec_thread = NoThread
    /\ th_pc[1] \in {"tick", "add"}

\* Properties of SpecProd: a session whose dataset could not be opened

\* The recorder is not in a dry run and has no dataset.
NoPersistence == ~ rec_dry_run /\ ~ rec_dataset

\* start() returns from a dataset that could not be opened or created.
OpenFails == rec_pc = "start_clear" /\ rec_pc' = "idle" /\ ~ rec_dry_run /\ ~ rec_dataset'

\* C18: when the dataset cannot be opened or created at start(), start() still
\* returns with the recorder recording and the sampler launched; every tick of
\* the sampler made without a dataset advances the frame counter by one, persists
\* nothing and goes on to the next tick; and stop() then reports False with
\* nothing persisted.
C18_Step ==
    /\ OpenFails =>
           /\ rec_recording'
           /\ rec_thread' = rec_session /\ th_pc'[rec_session] = "loop"
           /\ rec_episode' = <<>> /\ rec_store' = rec_store
    /\ \A t \in ProdThreads :
           (NoPersistence /\ th_pc[t] = "tick" /\ th_pc'[t] # "tick") =>
               /\ rec_frame_count' = rec_frame_count + 1
               /\ th_pc'[t] = "mark"
               /\ UNCHANGED <<rec_episode, rec_store, rec_dataset>>
    /\ (NoPersistence /\ rec_pc = "stop_save" /\ rec_pc' = "idle") =>
           /\ rec_call' = RecCall("stop", "False")
           /\ UNCHANGED <<rec_episode, rec_store, rec_dataset>>
    /\ (NoPersistence /\ rec_dataset' = rec_dataset) =>
           UNCHANGED <<rec_episode, rec_store>>
C18_NoPersistenceFallback == [][C18_Step]_vars

\* C18 witness: in the one session of a recorder that is not in a dry run the
\* dataset could not be opened, the sampler has counted a frame, and stop() has
\* returned False with nothing persisted.
C18_Witness ==
    /\ NoPersistence /\ rec_session = 1 /\ rec_aborted = {}
    /\ rec_call = RecCall("stop", "False") /\ rec_pc = "idle"
    /\ rec_frame_count >= 1
    /\ rec_store = <<>>

\* Properties of SpecProd: ticks that find no frame

\* The images held by a frame deque.
ImagesOf(q) == {q[i][2] : i \in 1 .. Len(q)}

\* What a tick must hand on as the image of a source whose deque is q: an
\* all-zero image of that source when q is empty, else an image of q.
ImageFor(image, q, source) ==
    IF q = <<>> THEN image = [source |-> source, n |-> 0] ELSE image \in ImagesOf(q)

\* C19: a tick does not fail for lack of a frame: whatever the two frame deques
\* hold, the tick raises the frame counter by exactly one; with a dataset it
\* hands on one frame whose image for each source with an empty deque is the
\* all-zero image of that source and whose action is the aggregate of the tick's
\* window; and the add that follows appends that one frame to the episode unless
\* the dataset itself refuses it, never more than one.
C19_Step ==
    \A t \in ProdThreads :
        /\ (th_pc[t] = "tick" /\ th_pc'[t] # "tick") =>
               /\ rec_frame_count' = rec_frame_count + 1
               /\ th_pc'[t] \in {"add", "mark"}
               /\ (th_pc'[t] = "add") <=> (~ rec_dry_run /\ rec_dataset)
               /\ (th_pc'[t] = "add") =>
                      /\ ImageFor(th_frame'[t].robot, fb_robot_frames, "robot")
                      /\ ImageFor(th_frame'[t].top, fb_webcam_frames, "webcam")
                      /\ th_frame'[t].action =
                             aggregate_commands(fb_commands,
                                 WindowStart(rec_frame_count', rec_last_frame_time,
                                             rec_start_time),
                                 th_time[t])
        /\ (th_pc[t] = "add" /\ th_pc'[t] # "add") =>
               /\ th_pc'[t] = "mark"
               /\ rec_frame_count' = rec_frame_count
               /\ \/ rec_episode' = Append(rec_episode, th_frame[t])
                  \/ rec_episode' = rec_episode
C19_ZeroImageForMissingFrame == [][C19_Step]_vars

\* C19 witness: the episode holds a frame made by a tick that found a robot
\* image and no webcam image: its webcam image is all zero, and it is the one
\* frame counted.
C19_Witness ==
    /\ Len(rec_episode) = 1 /\ rec_frame_count = 1
    /\ rec_episode[1].robot.n >= 1
    /\ rec_episode[1].top = [source |-> "webcam", n |-> 0]
    /\ fb_webcam_frames = <<>>

\* Properties of SpecLoad

\* The file cannot be loaded, or is a document one of whose commands lacks 'time'.
Malformed(file) ==
    \/ LoadRaises(file)
    \/ \E i \in 1 .. Len(file.commands) : ~ HasTime(file.commands[i])

\* C20: a corrupt or missing replay file is fatal at load time: on a file that is
\* missing, is not JSON or holds a malformed document no player comes to exist,
\* and no command of it is ever returned by get_pending_commands or
\* get_next_command_with_position, or executed.
C20_LoadFatal ==
    Malformed(pl_file) =>
        /\ pl_built # "yes"
        /\ pl_returned = <<>>
        /\ pl_executed = "none"

\* Properties of SpecConf

\* An action range whose max is below its min.
InvalidRange(ranges) == \E name \in DOMAIN ranges : ranges[name][2] < ranges[name][1]

\* C21: configuration errors fail fast: a recorder given a non-positive fps (zero
\* or negative) is rejected at construction, so that none exists and none
\* records, and normalize_action given a range with max < min is rejected and
\* returns no vector.
C21_ConfigRejected ==
    /\ rec_fps_arg <= 0 => (rec_built # "yes" /\ ~ rec_recording)
    /\ InvalidRange(nm_ranges) => ~ nm_norm.called

\* Properties of SpecTape

\* The step is a record_* call being made.
RecordCalled ==
    /\ rc_pc = "idle" /\ rc_call'.op = "record"
    /\ rc_call' # rc_call \/ rc_commands' # rc_commands \/ rc_pc' # rc_pc

\* The step puts exactly one entry at the end of the log.
AppendsEntry ==
    /\ Len(rc_commands') = Len(rc_commands) + 1
    /\ SubSeq(rc_commands', 1, Len(rc_commands)) = rc_commands

\* The last entry of the log after the step.
Appended == rc_commands'[Len(rc_commands')]

\* The time offsets of the log never decrease along the log.
OffsetsMonotone ==
    \A i \in 1 .. Len(rc_commands), j \in 1 .. Len(rc_commands) :
        i < j => rc_commands[i].time <= rc_commands[j].time

C22_Step ==
    /\ (RecordCalled /\ ~ rc_recording) =>
           UNCHANGED <<rc_commands, rc_pc, rc_pending, rc_recording, rc_start_time>>
    /\ (RecordCalled /\ rc_recording) =>
           IF rc_call'.type \in DriveTypes
           THEN rc_pc' = "read_y" /\ rc_pending'.entry.type = rc_call'.type
                    /\ UNCHANGED rc_commands
           ELSE AppendsEntry /\ Appended.type = rc_call'.type /\ rc_pc' = "idle"
    /\ (rc_pc = "read_z" /\ rc_pc' = "idle") =>
           AppendsEntry /\ Appended.type = rc_pending.entry.type
    /\ (rc_pc # "idle" /\ rc_pc' # "idle") => UNCHANGED rc_commands
    /\ rc_commands' # rc_commands =>
           \/ rc_recording /\ AppendsEntry
                  /\ Appended.time \in {rc_clock - rc_start_time,
                                        rc_pending.entry.time}
           \/ rc_commands' = <<>> /\ rc_call'.op = "start"
    /\ (rc_call'.op = "start" /\ rc_call' # rc_call) =>
           rc_commands' = <<>> /\ rc_recording'

\* C22: record_* calls append only while recording: each call made between
\* start() and stop() puts exactly one entry of its type at the end of the log,
\* a call made before start() or after stop() changes nothing, start() empties
\* the log, and the time offsets never decrease along the log.
C22_RecordsOnlyWhileRecording == [][C22_Step]_vars /\ []OffsetsMonotone

\* C22 witness: after a stop() a record call has been made and has left the log
\* of two entries, recorded at different times, as it was.
C22_Witness ==
    /\ ~ rc_recording /\ rc_call.op = "record" /\ rc_pc = "idle"
    /\ Len(rc_commands) = 2
    /\ rc_commands[1].time < rc_commands[2].time

C23_Step ==
    /\ (rc_pc = "read_z" /\ rc_pc' = "idle") =>
           /\ Appended.type \in DriveTypes
           /\ Appended.expected_pos = rc_pending.at_call
    /\ (rc_pc = "idle" /\ rc_pc' = "read_y") => rc_pending'.at_call = rc_position
    /\ rc_position' # rc_position =>
           rc_call'.op = "update_position" /\ rc_position' = rc_call'.pos
    /\ rc_commands' # <<>> =>
           \A i \in 1 .. Len(rc_commands) :
               i <= Len(rc_commands') /\ rc_commands'[i] = rc_commands[i]

\* C23: every chassis-speed and chassis-move entry carries as expected_pos the
\* pose update_position delivered last before the record call was made ((0,0,0)
\* when none was), however update_position and the record calls interleave, and
\* a later pose never changes an entry already in the log.
C23_ExpectedPosIsLastPose == [][C23_Step]_vars

\* Properties of SpecExec

\* The command the last execute_command call was given.
Executed == pl_call.ret[1]

\* The command types the specification names, each with its driver operation.
DispatchTable ==
    [chassis_speed |-> "drive_speed", chassis_move |-> "drive_move",
     arm_move |-> "arm_move", arm_recenter |-> "arm_recenter",
     gripper_open |-> "gripper_open", gripper_close |-> "gripper_close",
     gripper_stop |-> "gripper_stop", stop |-> "stop"]

\* The parameters a command of a type is recorded with that its driver operation
\* cannot do without.
RecordedKeys(type) ==
    IF type = "chassis_speed" THEN {"vx", "vy", "vz"}
    ELSE IF type = "chassis_move" THEN {"x", "y", "z"}
    ELSE IF type = "arm_move" THEN {"x", "y"}
    ELSE {}

\* The recorded parameters in the order of the driver operation's arguments,
\* a speed or power the command does not carry being the operation's default.
RecordedArgs(cmd) ==
    IF cmd.type = "chassis_speed" THEN <<cmd.vx, cmd.vy, cmd.vz>>
    ELSE IF cmd.type = "chassis_move"
    THEN <<cmd.x, cmd.y, cmd.z,
           IF "xy_speed" \in DOMAIN cmd THEN cmd.xy_speed ELSE DefaultXYSpeed10,
           IF "z_speed" \in DOMAIN cmd THEN cmd.z_speed ELSE DefaultZSpeed>>
    ELSE IF cmd.type = "arm_move" THEN <<cmd.x, cmd.y>>
    ELSE IF cmd.type \in {"gripper_open", "gripper_close"}
    THEN <<IF "power" \in DOMAIN cmd THEN cmd.power ELSE DefaultPower>>
    ELSE <<>>

\* A command of one of the named types that carries its type's parameters.
Dispatchable(cmd) ==
    /\ "type" \in DOMAIN cmd
    /\ cmd.type \in DOMAIN DispatchTable
    /\ RecordedKeys(cmd.type) \subseteq DOMAIN cmd

FracLeq(p, q) == p[1] * q[2] <= q[1] * p[2]
FracEq(p, q) == p[1] * q[2] = q[1] * p[2]

\* progress is within [0, 100], and is 100 from elapsed = duration on and for a
\* duration that is not positive.
ProgressClamped ==
    /\ FracLeq(<<0, 1>>, Progress) /\ FracLeq(Progress, <<100, 1>>)
    /\ (Duration <= 0 \/ Elapsed >= Duration) => FracEq(Progress, <<100, 1>>)
    /\ (Duration > 0 /\ Elapsed < Duration) => FracEq(Progress, <<100 * Elapsed, Duration>>)

\* C25 as stated: progress is elapsed/duration * 100 clamped to 100, within
\* [0, 100], 0 before start(), never decreasing while the player is running,
\* 100 for every elapsed >= duration and 100 for a duration <= 0.
C25_ProgressAsStated ==
    /\ [](pl_built = "yes" =>
              /\ ProgressClamped
              /\ pl_start_time = NoTime => FracEq(Progress, <<0, 1>>))
    /\ [][(pl_built = "yes" /\ IsPlaying) => FracLeq(Progress, Progress')]_vars

\* C25 amended: progress is elapsed/duration * 100 clamped to 100, within
\* [0, 100], 100 for every elapsed >= duration and for a duration <= 0 (also
\* before start()), 0 before start() when the duration is positive, and it never
\* decreases on any step but a start() call, which takes it back to its value at
\* elapsed 0.
C25_Progress ==
    /\ [](pl_built = "yes" =>
              /\ ProgressClamped
              /\ (pl_start_time = NoTime /\ Duration > 0) => FracEq(Progress, <<0, 1>>))
    /\ [][pl_built = "yes" =>
              IF pl_call'.op = "start"
              THEN Progress' = progress(NoTime, 0, Duration)
              ELSE FracLeq(Progress, Progress')]_vars

\* C25 witness: a player of duration 3 has been started and is at elapsed 2,
\* two thirds of the way, after a restart.
C25_Witness ==
    /\ pl_built = "yes" /\ Duration = 3 /\ Elapsed = 2
    /\ pl_start_time > 0
    /\ FracEq(Progress, <<200, 3>>)

\* Properties of SpecNorm

\* The raw value and the range of a channel in the two arguments.
RawIn(name) == IF name \in DOMAIN nm_raw THEN nm_raw[name] ELSE 0
RangeIn(name) == IF name \in DOMAIN nm_ranges THEN nm_ranges[name] ELSE <<0, 1>>

\* The value of the range nearest to v: v itself when it lies in the range.
Nearest(v, range) == IF v < range[1] THEN range[1] ELSE IF v > range[2] THEN range[2] ELSE v

\* C26: round trip of the normalizer: for every range with min < max, on each of
\* the 8 used channels, denormalize_action(normalize_action(raw)) gives the raw
\* value back when it lies within [min, max], and the nearest bound of the range
\* when it lies outside.
C26_RoundTrip ==
    nm_denorm.called =>
        \A name \in ActionFields :
            RangeIn(name)[1] < RangeIn(name)[2] =>
                FracEq(nm_denorm.value[name], <<Nearest(RawIn(name), RangeIn(name)), 1>>)

\* C26 witness: a round trip has been made in which rotate_z, out of its range
\* (-3, 4) at -7, came back as the bound -3, gripper_open, 50 of (0, 100), came
\* back as 50, and move_x, 1 of (-1, 1), as 1.
C26_Witness ==
    /\ nm_denorm.called
    /\ RangeIn("rotate_z") = <<-3, 4>> /\ RawIn("rotate_z") = -7
    /\ FracEq(nm_denorm.value["rotate_z"], <<-3, 1>>)
    /\ RangeIn("gripper_open") = <<0, 100>> /\ RawIn("gripper_open") = 50
    /\ FracEq(nm_denorm.value["gripper_open"], <<50, 1>>)
    /\ RangeIn("move_x") = <<-1, 1>> /\ FracEq(nm_denorm.value["move_x"], <<1, 1>>)

\* The channel order of the action vector.
ChannelOrder ==
    <<"move_x", "move_y", "rotate_z", "gripper_open", "gripper_close", "arm_recenter",
      "arm_x", "arm_y", "unused">>

\* The entry a channel is to have: its raw value, clipped to the range, taken
\* linearly from [min, max] to [-1, 1]; 0 when the range has no extent.
Scaled(v, range) ==
    IF range[2] - range[1] > 0
    THEN <<2 * Nearest(v, range) - range[1] - range[2], range[2] - range[1]>>
    ELSE <<0, 1>>

\* C27: for every raw action map normalize_action returns exactly 9 entries in
\* the fixed channel order, the i-th being the scaled value of the i-th channel;
\* every entry lies in [-1, 1], the 9th is 0, and a channel whose range has
\* max = min gives 0.
C27_VectorShape ==
    nm_norm.called =>
        /\ DOMAIN nm_norm.value = 1 .. 9
        /\ \A i \in 1 .. 8 :
               /\ FracEq(nm_norm.value[i], Scaled(RawIn(ChannelOrder[i]), RangeIn(ChannelOrder[i])))
               /\ RangeIn(ChannelOrder[i])[1] = RangeIn(ChannelOrder[i])[2] =>
                      FracEq(nm_norm.value[i], <<0, 1>>)
        /\ \A i \in 1 .. 9 :
               /\ nm_norm.value[i][2] > 0
               /\ FracLeq(<<-1, 1>>, nm_norm.value[i]) /\ FracLeq(nm_norm.value[i], <<1, 1>>)
        /\ FracEq(nm_norm.value[9], <<0, 1>>)

\* C27 witness: a map naming gripper_open and arm_y only, with 101, has been
\* normalized with the range (0, 100): the two entries are 1 (clipped), every
\* other used entry is -1 (the absent field counts as 0.0).
C27_Witness ==
    /\ nm_norm.called
    /\ DOMAIN nm_raw = {"gripper_open", "arm_y"} /\ nm_raw["arm_y"] = 101
    /\ \A name \in ActionFields : RangeIn(name) = <<0, 100>>
    /\ FracEq(nm_norm.value[4], <<1, 1>>) /\ FracEq(nm_norm.value[8], <<1, 1>>)
    /\ FracEq(nm_norm.value[1], <<-1, 1>>) /\ FracEq(nm_norm.value[7], <<-1, 1>>)

\* Further properties of SpecRec

\* The sampler threads that are inside _recording_loop.
InLoop == {t \in Threads : th_pc[t] \in ThreadRunning}

\* C28: at any moment at most one sampler thread executes the recording loop of
\* the recorder, whatever start(), stop() and abort() calls were made, a start()
\* after a timed-out join included.
C28_OneSampler == Cardinality(InLoop) <= 1

\* A sampler thread still in its loop whose cancellation stop() or abort() has
\* asked for: the flag is set, or the recorder has let go of the thread after a
\* join on it.
Cancelled(t) == th_pc[t] \in ThreadRunning /\ (rec_stop_event \/ rec_thread # t)

C29_Step ==
    \A t \in Threads :
        /\ (Cancelled(t) /\ th_pc[t] = "loop" /\ th_pc'[t] # "loop") => th_pc'[t] = "done"
        /\ (Cancelled(t) /\ th_pc[t] = "wait") => ENABLED ThWake(t)
        /\ (th_pc[t] \in {"tick", "add", "mark"} /\ th_pc'[t] # th_pc[t]) =>
               th_pc'[t] \in {"add", "mark", "wait", "loop"}

\* C29: the sampler tests the cancellation flag on each iteration: once stop() or
\* abort() has set the flag, a sampler finishes at most the tick it had begun
\* before, starts no other and leaves its loop at its next test of the flag, and
\* a sampler waiting for its next tick can return from the wait at once.
C29_CancelStopsSampler == [][C29_Step]_vars

\* Further properties of SpecSave

\* Entry i of the log is a chassis-speed or gripper command identical to the
\* entry recorded immediately before it.
ConsecutiveDuplicate(log, i) ==
    /\ i > 1
    /\ log[i].type \in {"chassis_speed"} \cup GripperTypes
    /\ log[i].type = log[i - 1].type
    /\ log[i].key = log[i - 1].key

\* C30: the redundancy pass of save() removes a command only if it is a
\* chassis-speed or gripper command identical to the command recorded immediately
\* before it; a speed or gripper command that repeats an earlier one after a
\* different command in between (speed v, stop, speed v) is kept.
C30_OnlyConsecutiveDuplicatesRemoved ==
    rc_doc.written =>
        \A i \in 1 .. Len(rc_commands) :
            ~ InDoc(rc_doc.commands, i) => ConsecutiveDuplicate(rc_commands, i)

\* Properties of SpecFail

C31_Step ==
    /\ \A t \in ProdThreads :
           /\ (th_pc[t] = "add" /\ th_pc'[t] # "add") =>
                  /\ th_pc'[t] = "mark"
                  /\ rec_episode' \in {rec_episode, Append(rec_episode, th_frame[t])}
                  /\ UNCHANGED <<rec_recording, rec_stop_event, rec_thread, rec_dataset,
                                 rec_frame_count>>
           /\ (th_pc[t] \in ThreadRunning /\ th_pc'[t] = "done") => rec_stop_event
           /\ (th_pc[t] = "tick" /\ th_pc'[t] # "tick") =>
                  /\ rec_frame_count' = rec_frame_count + 1
                  /\ rec_dataset => th_pc'[t] = "add"
    /\ (rec_recording /\ ~ rec_recording') => rec_call'.op \in {"stop", "abort"}

\* C31: a failed frame write does not end the session: the tick's frame is left
\* out of the episode and nothing else changes, is_recording stays true, the
\* sampler goes on with its loop and ends only on the cancellation flag, every
\* later tick is counted and handed to the dataset, and only stop() or abort()
\* take the recorder out of Recording.
C31_WriteFailureSkipsTick == [][C31_Step]_vars

\* C31 witness: the session is still recording after two ticks, the first of
\* which failed to write its frame; the episode holds the frame of the second,
\* the one whose window has the command stamped at time 2.
C31_Witness ==
    /\ rec_recording /\ rec_dataset /\ th_pc[1] \in {"wait", "loop"}
    /\ rec_frame_count = 2 /\ rec_window_end = 2
    /\ Len(fb_commands) = 1 /\ fb_commands[1][1] = 2
    /\ Len(rec_episode) = 1 /\ rec_episode[1].action["move_x"] = 1

(***************************************************************************)
(* The buffer lock                                                         *)
(***************************************************************************)

\* What a thread inside the with-block never has as its next step: entering a
\* with-block, joining the sampler, or being outside a method (asleep in the
\* sampler's wait, or ended).
LkBlocking == {"acquire", "join", "none"}

LkHolderRuns == lk_holder # "none" => LkNextStep(lk_holder) \notin LkBlocking

LkInCall(p) == LkNextStep(p) # "none"

NoDeadlock == (\E p \in LkThreads : LkInCall(p)) => \E p \in LkThreads : ENABLED LkStep(p)

\* C32: the thread that holds the buffer lock never waits for a lock, sleeps or
\* joins; whenever some thread is inside a method some thread can take a step; and
\* under fair scheduling every producer call (add_command, add_robot_frame,
\* add_webcam_frame) and every start/stop/abort that has begun returns, whatever
\* the samplers do outside the lock.
C32_ProducersNeverWait ==
    /\ [](LkHolderRuns /\ NoDeadlock)
    /\ \A p \in {"producer", "control"} : LkInCall(p) ~> (lk_pc[p] = LkIdle)

\* C32 witness: a producer is waiting to enter the with-block that a sampler is
\* in, while stop() or abort() has set the flag and is joining that sampler.
C32_Witness ==
    /\ lk_holder \in Samplers
    /\ LkNextStep("producer") = "acquire"
    /\ LkNextStep("control") = "join"
    /\ lk_flag

LkSteps(p) == lk_pc'[p] # lk_pc[p]

\* C33: the image copy of add_robot_frame / add_webcam_frame and the summation of
\* aggregate_commands are steps taken by a thread that does not hold the lock.
C33_CopyAndSumOutsideLock ==
    [][\A p \in LkThreads :
          (LkSteps(p) /\ LkNextStep(p) \in {"copy_image", "sum"}) => lk_holder # p]_vars

(***************************************************************************)
(* After stop()                                                            *)
(***************************************************************************)

\* stop() has passed its join in a session that no abort() ended: it is saving
\* the episode, or it has returned and nothing was called since.
StopPastJoin ==
    /\ rec_call.op = "stop"
    /\ rec_pc \in {"stop_save", "idle"}
    /\ rec_session > 0
    /\ rec_session \notin rec_aborted

\* A sampler counts a frame or hands one to the dataset.
SamplerTicks == \E t \in DOMAIN th_pc : th_pc[t] \in {"tick", "add"} /\ th_pc'[t] # th_pc[t]

C34_Step ==
    (StopPastJoin /\ rec_call'.op = "stop") =>
        /\ rec_frame_count' = rec_frame_count
        /\ ~ SamplerTicks

\* C34: from the save of stop() on and until the next call other than stop(), no
\* sampler counts a frame or adds one to the episode, and frame_count stays as it is.
C34_QuiescentAfterStop == [][C34_Step]_vars

(***************************************************************************)
(* The windows of a session's ticks                                        *)
(***************************************************************************)

\* Where the window of the session's next tick has to start: at the end of the
\* window aggregated last, or at the session's start time before the first tick.
PrevBoundary == IF rec_window_end = NoTime THEN rec_start_time ELSE rec_window_end

\* Sampler thread t runs _process_frame.
TickStep(t) == th_pc[t] = "tick" /\ th_pc'[t] # "tick"

C35_Step ==
    /\ \A t \in DOMAIN th_pc :
          TickStep(t) =>
              LET start == WindowStart(rec_frame_count + 1, rec_last_frame_time,
                                       rec_start_time)
              IN  /\ t = rec_session
                  /\ start = PrevBoundary
                  /\ start <= th_time[t]
                  /\ rec_frame_count' = rec_frame_count + 1
    /\ rec_frame_count' # rec_frame_count =>
          \/ \E t \in DOMAIN th_pc : TickStep(t)
          \/ rec_session' = rec_session + 1 /\ rec_frame_count' = 0

\* C35: every tick is a tick of the current session's sampler; its window starts
\* where the window of the tick before ended (at the session's start time for the
\* first tick) and does not end before it starts; the frame counter is 0 at the
\* session's start, goes up by one with each tick and changes at no other step.
C35_WindowsTile == [][C35_Step]_vars

(***************************************************************************)
(* The cursor shared by the two retrieval calls                            *)
(***************************************************************************)

\* The commands returned since start(), as positions in the log, are 1, 2, ... up
\* to the cursor.
ReturnedIsPrefix == pl_returned = [k \in 1 .. pl_index |-> k]

C36_Step ==
    /\ pl_call'.op # "start" => pl_index' >= pl_index
    /\ (pl_call'.op \in {"pending", "next"} /\ pl_call' # pl_call) =>
          pl_call'.ret = SubSeq(pl_commands, pl_index + 1, pl_index')

\* C36: whatever the order of get_pending_commands and
\* get_next_command_with_position calls, the commands returned since start() are
\* the log's commands before the cursor, each once and in recorded order; each
\* call returns the commands the cursor moves past; the cursor never goes back
\* except in start() and never passes the end of the log.
C36_SharedCursor ==
    /\ [](ReturnedIsPrefix /\ pl_index <= Len(pl_commands))
    /\ [][C36_Step]_vars

\* C36 witness: a get_pending_commands call has returned the second command alone
\* although the first has the same time offset, so the first one was released by
\* get_next_command_with_position in the same playback.
C36_Witness ==
    /\ pl_call.op = "pending" /\ pl_call.index_before = 1 /\ Len(pl_call.ret) = 1
    /\ pl_commands[1].time = pl_commands[2].time
    /\ pl_returned = <<1, 2>>

(***************************************************************************)
(* The document of save()                                                  *)
(***************************************************************************)

Deduplicated == {"chassis_speed"} \cup GripperTypes

C37_Step == rc_call'.op = "save" => rc_commands' = rc_commands

\* C37: the commands of the document save() writes are entries of the log, each
\* at most once and in the order of the log; the first entry of the log and
\* every entry that is neither a chassis-speed nor a gripper command are among
\* them; command_count is their number; and save() does not change the log.
C37_DocumentIsSubsequence ==
    /\ [](rc_doc.written =>
            /\ OrderPreserved(rc_doc.commands, rc_commands)
            /\ rc_commands # <<>> => InDoc(rc_doc.commands, 1)
            /\ \A i \in 1 .. Len(rc_commands) :
                  rc_commands[i].type \notin Deduplicated => InDoc(rc_doc.commands, i)
            /\ rc_doc.command_count = Len(rc_doc.commands))
    /\ [][C37_Step]_vars

\* C37 witness: a document that lacks a command of the log and holds the log's
\* first command, a chassis-speed command, and a later arm move.
C37_Witness ==
    /\ rc_doc.written
    /\ rc_doc.command_count < Len(rc_commands)
    /\ rc_commands[1].type = "chassis_speed"
    /\ \E k \in 2 .. Len(rc_doc.commands) : rc_doc.commands[k].type = "arm_move"

\* C38: the pass applied to the commands of a document save() wrote returns
\* them unchanged.
C38_OptimizeIdempotent ==
    rc_doc.written => optimize_commands(rc_doc.commands) = rc_doc.commands

\* C38 witness: a document from which the pass removed a command and which still
\* holds the same chassis-speed command twice, at its first two places.
C38_Witness ==
    /\ rc_doc.written
    /\ Len(rc_doc.commands) \in 2 .. Len(rc_commands) - 1
    /\ rc_doc.commands[1].type = "chassis_speed"
    /\ rc_doc.commands[2].type = "chassis_speed"
    /\ rc_doc.commands[1].key = rc_doc.commands[2].key

(***************************************************************************)
(* One action at a time                                                    *)
(***************************************************************************)

\* A call of execute_action or move has just returned.
AcReturned == ac_call' # ac_call

C39_Step ==
    AcReturned =>
        /\ InFlight # {} => ac_call'.ret = "False"
        /\ ac_call'.ret = "False" =>
              \A w \in Actions : ac_pc'[w] = "started" => ac_pc[w] = "started"

\* C39: never more than one accepted action is in flight; is_ready() is false
\* as long as one is; and a call of execute_action or move made while one is in
\* flight returns False and starts no waiter.
C39_OneActionInFlight ==
    /\ [](Cardinality(InFlight) <= 1)
    /\ [](InFlight # {} => ~ is_ready(ac_is_moving))
    /\ [][C39_Step]_vars

(***************************************************************************)
(* The Back button                                                         *)
(***************************************************************************)

\* An iteration of the loop of a drive with a recorder has run.
IterStep ==
    /\ dl_has_recorder /\ dl_running
    /\ dlVars' # dlVars
    /\ dl_iter'.ending # "interrupt"

\* The iteration polled the button down after the iteration before polled it up.
NewPress == dl_iter'.back /\ ~ dl_prev

\* The start() and stop() calls the iteration made.
Toggles == SelectSeq(dl_iter'.calls, LAMBDA c : c \in {"start", "stop"})

C40_Step ==
    IterStep =>
        /\ Toggles = IF NewPress THEN <<IF dl_recording THEN "stop" ELSE "start">> ELSE <<>>
        /\ dl_recording' = IF dl_iter'.ending # "go_on" THEN FALSE
                           ELSE IF NewPress THEN ~ dl_recording ELSE dl_recording
        /\ dl_prev' = dl_iter'.back

\* C40: an iteration with a new press of Back makes exactly one call, stop()
\* when recording and start() when idle, and an iteration without a new press
\* makes neither call, however long the button has been down; is_recording after
\* an iteration that goes on is toggled by a press and unchanged without one, and
\* after an iteration with a quit input (Start button, q / ESC, window close) it
\* is false, a recording in progress being aborted.
C40_BackEdgeTriggered == [][C40_Step]_vars

\* C40 witness: the button has been down for three iterations in a row and the
\* recording its press started, after an earlier episode was saved, is still on.
C40_Witness ==
    /\ dl_has_recorder /\ dl_running
    /\ dl_iter.held = MaxHeld /\ dl_iter.calls = <<>>
    /\ dl_recording
    /\ dl_episodes >= 1

====
